---- MODULE Spec2Model ----
(***************************************************************************)
(* Grade book (src/src/App.tsx): the grade aggregation and ranking engine. *)
(*                                                                         *)
(* Numbers.  JavaScript numbers that the engine divides (averages, class   *)
(* averages, pass percentages) are modelled as exact fractions, records    *)
(* [n, d] in lowest terms with d > 0.  The two non-finite values a         *)
(* division can produce are kept: Infinity is [n |-> 1, d |-> 0] and NaN   *)
(* is [n |-> 0, d |-> 0].  IEEE rounding is not modelled.                  *)
(* A mark value is a natural number or the empty string '' (EmptyString).  *)
(***************************************************************************)
EXTENDS Integers, Sequences, FiniteSets, TLC

\* ------------------------------------------------------------------ bounds
\* the size of a snapshot: students + subjects + marks
MaxEntities == 4

\* the values a subject total is drawn from
Totals == {1, 2}

\* the numbers a mark is drawn from
MarkNumbers == {0, 1, 2}

\* the sequences a mark is drawn from: both sequences of the first term and
\* one sequence of each other term
MarkSequences == {"firstSequence", "secondSequence", "thirdSequence", "fifthSequence"}

\* the document ids the store generates in a run (students, subjects, marks)
MaxDocs == 3

\* the handler calls suspended at an await at one time
MaxPending == 2

\* the inputs of the handlers
StudentNames == {"A", "B"}

SubjectNamesIn == {"Maths", "Physics"}

TotalInputs == {0, 1, 2}

MarkInputs == {"", "0", "1", "2", "3", "-1", "x"}

CommentInputs == {"good"}

EntrySequences == {"firstSequence", "secondSequence"}

ResultViews == {"sequence", "annual"}

\* the inputs of the whole-application runs
AppStudentNames == {"A"}

AppSubjectNames == {"Maths"}

AppMarkInputs == {"", "1", "2", "3", "-1", "x"}

\* the inputs of the overlapping mark changes
BulkMarkInputs == {"", "1", "2"}

\* the inputs of the runs on a class of two students
ClassMarkInputs == {"1"}

\* the inputs of the runs against a store that rejects calls
FaultMarkInputs == {"", "1"}

\* student display names (names are only ever compared for equality, so a
\* student list uses them in order of first appearance)
Names == <<"A", "B", "C", "D", "E", "F", "G">>

SubjectNames == <<"Maths", "Physics", "Art", "History", "Music", "Latin", "Greek">>

\* ------------------------------------------------------- program constants
PASSING_MARK == 10

\* the value of `mark === '' ? '' : Number(mark)` for the empty input
EmptyString == -1

\* the values of Mark.marks: a number, or '' for a cleared mark
MarkValues == MarkNumbers \cup {EmptyString}

SequenceNames ==
  <<"firstSequence", "secondSequence", "thirdSequence",
    "fourthSequence", "fifthSequence", "sixthSequence">>

Sequences6 == {SequenceNames[i] : i \in 1..Len(SequenceNames)}

termSequences ==
  [firstTerm  |-> <<"firstSequence", "secondSequence">>,
   secondTerm |-> <<"thirdSequence", "fourthSequence">>,
   thirdTerm  |-> <<"fifthSequence", "sixthSequence">>]

\* ------------------------------------------------------------ state
VARIABLES
  students,            \* Student[]   : <<[id, name]>>
  subjects,            \* Subject[]   : <<[id, name, total]>>
  marks,               \* Mark[]      : <<[id, studentId, subjectId, sequence, marks]>>
  selectedSequence,
  selectedResultView,
  sequenceResults,     \* <<[student, totalMarks, average, rank]>>
  firstTermResults,
  secondTermResults,
  thirdTermResults,
  annualResults,       \* <<[student, firstTermAverage, .., finalAverage, rank]>>
  sequenceClassAverage,
  firstTermClassAverage,
  secondTermClassAverage,
  thirdTermClassAverage,
  annualClassAverage,
  sequencePassPercentage,
  firstTermPassPercentage,
  secondTermPassPercentage,
  thirdTermPassPercentage,
  annualPassPercentage,
  user,                \* useAuthState: TRUE while a user is signed in
  store,               \* the Firestore collections of the user
  studentComments,     \* studentId -> (label -> text)
  errorMessage,
  pending,             \* the handler calls suspended at an await
  nextId,              \* the next document id the store generates
  report,              \* the arguments of the last generateStudentReport call
  storeDown,           \* the store rejects the calls made to it
  loading,             \* useAuthState: TRUE until the auth state is known
  route                \* the location of the router

dataVars == <<students, subjects, marks>>

\* the state outside the aggregators' reach
appVars ==
  <<user, store, studentComments, errorMessage, pending, nextId, report, storeDown, loading, route>>

seqResultVars == <<sequenceResults, sequenceClassAverage, sequencePassPercentage>>

termResultVars ==
  <<firstTermResults, secondTermResults, thirdTermResults, annualResults,
    firstTermClassAverage, secondTermClassAverage, thirdTermClassAverage,
    annualClassAverage, firstTermPassPercentage, secondTermPassPercentage,
    thirdTermPassPercentage, annualPassPercentage>>

vars ==
  <<dataVars, selectedSequence, selectedResultView, seqResultVars, termResultVars,
    appVars>>

\* ------------------------------------------------------------ numbers
RECURSIVE GCD(_, _)
GCD(a, b) == IF b = 0 THEN a ELSE GCD(b, a % b)

NaN == [n |-> 0, d |-> 0]

Infinity == [n |-> 1, d |-> 0]

\* useState<number | null>(null)
Null == [n |-> 0, d |-> -1]

\* the JavaScript number n / d for integers n >= 0, d >= 0
Quot(n, d) ==
  IF d = 0 THEN (IF n = 0 THEN NaN ELSE Infinity)
  ELSE LET g == GCD(n, d) IN [n |-> n \div g, d |-> d \div g]

Num(k) == Quot(k, 1)

IsNaN(x) == x = NaN

\* x + y
Plus(x, y) ==
  IF IsNaN(x) \/ IsNaN(y) THEN NaN
  ELSE IF x = Infinity \/ y = Infinity THEN Infinity
  ELSE Quot(x.n * y.d + y.n * x.d, x.d * y.d)

\* x * k for an integer k >= 0
Times(x, k) == IF IsNaN(x) THEN NaN ELSE Quot(x.n * k, x.d)

\* x / k for an integer k >= 0
Over(x, k) ==
  IF IsNaN(x) THEN NaN
  ELSE IF x = Infinity THEN Infinity
  ELSE Quot(x.n, x.d * k)

\* x > y
Gt(x, y) == ~IsNaN(x) /\ ~IsNaN(y) /\ x.n * y.d > y.n * x.d

\* x >= y
Geq(x, y) == ~IsNaN(x) /\ ~IsNaN(y) /\ x.n * y.d >= y.n * x.d

\* x || 0 for a number x: 0 and NaN are falsy
OrZero(x) == IF IsNaN(x) \/ x = Num(0) THEN Num(0) ELSE x

\* ------------------------------------------------------------ helpers
Range(s) == {s[i] : i \in 1..Len(s)}

\* Array.prototype.filter(avg => avg > 0)
RECURSIVE KeepPositive(_)
KeepPositive(s) ==
  IF s = <<>> THEN <<>>
  ELSE IF Gt(Head(s), Num(0)) THEN <<Head(s)>> \o KeepPositive(Tail(s))
  ELSE KeepPositive(Tail(s))

\* Array.prototype.reduce((sum, avg) => sum + avg, 0)
RECURSIVE SumNums(_)
SumNums(s) == IF s = <<>> THEN Num(0) ELSE Plus(SumNums(SubSeq(s, 1, Len(s) - 1)), s[Len(s)])

\* a find that takes the first Mark of the student and subject, whatever its
\* sequence
FindMark_AnySequence(ms, studentId, subjectId, sequence) ==
  LET hits == {i \in 1..Len(ms) : ms[i].studentId = studentId /\ ms[i].subjectId = subjectId}
  IN IF hits = {} THEN 0 ELSE CHOOSE i \in hits : \A j \in hits : i <= j

\* marks.find(m => m.studentId === .. && m.subjectId === .. && m.sequence === ..):
\* the index of the first matching Mark, 0 when there is none
FindMark(ms, studentId, subjectId, sequence) ==
  LET hits == {i \in 1..Len(ms) : /\ ms[i].studentId = studentId
                                  /\ ms[i].subjectId = subjectId
                                  /\ ms[i].sequence = sequence}
  IN IF hits = {} THEN 0 ELSE CHOOSE i \in hits : \A j \in hits : i <= j

\* a lookup that forgets the sequence of the Mark
MarkOrZero_AnySequence(ms, studentId, subjectId, sequence) ==
  LET hits == {i \in 1..Len(ms) : ms[i].studentId = studentId /\ ms[i].subjectId = subjectId}
  IN IF hits = {} THEN 0
     ELSE LET v == ms[CHOOSE i \in hits : \A j \in hits : i <= j].marks
          IN IF v = EmptyString THEN 0 ELSE v

\* Number(marks.find(..)?.marks || 0): undefined, '' and 0 are falsy
MarkOrZero(ms, studentId, subjectId, sequence) ==
  LET i == FindMark(ms, studentId, subjectId, sequence)
  IN IF i = 0 THEN 0
     ELSE IF ms[i].marks = EmptyString \/ ms[i].marks = 0 THEN 0
     ELSE ms[i].marks

\* the subjects.forEach loop: the sum of the student's marks of one sequence
RECURSIVE SumMarks(_, _, _, _, _)
SumMarks(ms, subs, k, studentId, sequence) ==
  IF k = 0 THEN 0
  ELSE SumMarks(ms, subs, k - 1, studentId, sequence)
       + MarkOrZero(ms, studentId, subs[k].id, sequence)

\* the subjects.forEach loop: the sum of the subjects' totals
RECURSIVE SumTotals(_, _)
SumTotals(subs, k) == IF k = 0 THEN 0 ELSE SumTotals(subs, k - 1) + subs[k].total

\* a sort that puts an element before the elements of equal key
RECURSIVE SortedOrder_Unstable(_, _)
SortedOrder_Unstable(keys, n) ==
  IF n = 0 THEN <<>>
  ELSE LET prev == SortedOrder_Unstable(keys, n - 1)
           k == Cardinality({p \in 1..Len(prev) : Gt(keys[prev[p]], keys[n])})
       IN SubSeq(prev, 1, k) \o <<n>> \o SubSeq(prev, k + 1, Len(prev))

\* [...results].sort((a, b) => b.key - a.key): the indices 1..n of keys in
\* the order of a stable sort by descending key.  An element is placed after
\* every element the comparator does not put behind it (b.key - a.key <= 0,
\* a NaN difference counting as 0).
RECURSIVE SortedOrder(_, _)
SortedOrder(keys, n) ==
  IF n = 0 THEN <<>>
  ELSE LET prev == SortedOrder(keys, n - 1)
           k == Cardinality({p \in 1..Len(prev) : ~Gt(keys[n], keys[prev[p]])})
       IN SubSeq(prev, 1, k) \o <<n>> \o SubSeq(prev, k + 1, Len(prev))

\* the rows left in the order of the student list
SortDescending_NoSort(rows, keys) == rows

SortDescending(rows, keys) ==
  LET order == SortedOrder(keys, Len(rows))
  IN [p \in 1..Len(rows) |-> rows[order[p]]]

\* ranks shared by rows of equal key (1 + the number of rows with a higher key)
WithRank_SharedOnTies(rows) ==
  [p \in 1..Len(rows) |->
     ("rank" :> 1 + Cardinality({q \in 1..Len(rows) :
                     IF "finalAverage" \in DOMAIN rows[q]
                     THEN Gt(rows[q].finalAverage, rows[p].finalAverage)
                     ELSE Gt(rows[q].average, rows[p].average)}))
     @@ rows[p]]

\* sorted.map((result, idx) => ({...result, rank: idx + 1})); idx = p - 1
WithRank(rows) ==
  [p \in 1..Len(rows) |-> ("rank" :> p) @@ rows[p]]

\* ------------------------------------------------------------ sequence aggregator
\* totalPossible > 0 ? (totalMarks / totalPossible) * 20 : 0
SequenceAverage(totalMarks, totalPossible) ==
  IF totalPossible > 0 THEN Times(Quot(totalMarks, totalPossible), 20) ELSE Num(0)

\* students.map(student => ..) of calculateSequenceResults
SequenceRow(student, subs, ms, sequence) ==
  LET totalMarks == SumMarks(ms, subs, Len(subs), student.id, sequence)
      totalPossible == SumTotals(subs, Len(subs))
  IN [student |-> student.name,
      totalMarks |-> totalMarks,
      average |-> SequenceAverage(totalMarks, totalPossible)]

SequenceRows(studs, subs, ms, sequence) ==
  [i \in 1..Len(studs) |-> SequenceRow(studs[i], subs, ms, sequence)]

Averages(rows) == [i \in 1..Len(rows) |-> rows[i].average]

resultsWithRank(studs, subs, ms, sequence) ==
  LET results == SequenceRows(studs, subs, ms, sequence)
  IN WithRank(SortDescending(results, Averages(results)))

\* a class average over the students with a positive average only
SequenceClassAvg_PositiveOnly(results) ==
  LET valid == KeepPositive([i \in 1..Len(results) |-> results[i].average])
  IN IF Len(valid) > 0 THEN Over(SumNums(valid), Len(valid)) ELSE Num(0)

\* results.reduce((sum, {average}) => sum + average, 0) / results.length || 0
SequenceClassAvg(results) ==
  OrZero(Over(SumNums(Averages(results)), Len(results)))

IsPass(average) == Geq(average, Num(PASSING_MARK))

\* averages.filter(average => average >= PASSING_MARK).length
PassCount(avgs) == Cardinality({i \in 1..Len(avgs) : IsPass(avgs[i])})

\* results.length > 0 ? (passCount / results.length) * 100 : 0
SequencePassPerc(results) ==
  IF Len(results) > 0
  THEN Times(Quot(PassCount(Averages(results)), Len(results)), 100)
  ELSE Num(0)

\* ------------------------------------------------------------ term aggregator
\* a presence check instead of the numeric threshold
SequenceEntered_Always(sequenceMarks) == sequenceMarks >= 0

\* if (sequenceMarks > 0): the sequence counts as entered
SequenceEntered(sequenceMarks) == sequenceMarks > 0

\* an accumulation that overwrites totalPossible instead of adding to it
RECURSIVE TermAccumulate_PossibleOnce(_, _, _, _, _)
TermAccumulate_PossibleOnce(student, subs, ms, sequences, k) ==
  IF k = 0 THEN [totalMarks |-> 0, totalPossible |-> 0, sequenceCount |-> 0]
  ELSE LET acc == TermAccumulate_PossibleOnce(student, subs, ms, sequences, k - 1)
           sequenceMarks == SumMarks(ms, subs, Len(subs), student.id, sequences[k])
           sequencePossible == SumTotals(subs, Len(subs))
       IN IF sequenceMarks > 0
          THEN [totalMarks |-> acc.totalMarks + sequenceMarks,
                totalPossible |-> sequencePossible,
                sequenceCount |-> acc.sequenceCount + 1]
          ELSE acc

\* the sequences.forEach loop of calculateTerm over the first k sequences
RECURSIVE TermAccumulate(_, _, _, _, _)
TermAccumulate(student, subs, ms, sequences, k) ==
  IF k = 0 THEN [totalMarks |-> 0, totalPossible |-> 0, sequenceCount |-> 0]
  ELSE LET acc == TermAccumulate(student, subs, ms, sequences, k - 1)
           sequenceMarks == SumMarks(ms, subs, Len(subs), student.id, sequences[k])
           sequencePossible == SumTotals(subs, Len(subs))
       IN IF SequenceEntered(sequenceMarks)
          THEN [totalMarks |-> acc.totalMarks + sequenceMarks,
                totalPossible |-> acc.totalPossible + sequencePossible,
                sequenceCount |-> acc.sequenceCount + 1]
          ELSE acc

\* sequenceCount > 0 ? (totalMarks / totalPossible) * 20 : 0
TermAverage(totalMarks, totalPossible, sequenceCount) ==
  IF sequenceCount > 0 THEN Times(Quot(totalMarks, totalPossible), 20) ELSE Num(0)

TermRow(student, subs, ms, sequences) ==
  LET acc == TermAccumulate(student, subs, ms, sequences, Len(sequences))
  IN [student |-> student.name,
      totalMarks |-> acc.totalMarks,
      average |-> TermAverage(acc.totalMarks, acc.totalPossible, acc.sequenceCount),
      rank |-> 0]

calculateTerm(studs, subs, ms, sequences) ==
  LET results == [i \in 1..Len(studs) |-> TermRow(studs[i], subs, ms, sequences)]
  IN WithRank(SortDescending(results, Averages(results)))

\* ------------------------------------------------------------ annual aggregator
\* a lookup that takes the last matching row
FindTermAverage_Last(termResults, name) ==
  LET hits == {p \in 1..Len(termResults) : termResults[p].student = name}
  IN IF hits = {} THEN Num(0)
     ELSE OrZero(termResults[CHOOSE p \in hits : \A q \in hits : p >= q].average)

\* termResults.find(r => r.student === student.name)?.average || 0
FindTermAverage(termResults, name) ==
  LET hits == {p \in 1..Len(termResults) : termResults[p].student = name}
  IN IF hits = {} THEN Num(0)
     ELSE OrZero(termResults[CHOOSE p \in hits : \A q \in hits : p <= q].average)

\* a mean over all three terms
FinalAverage_AllThree(termAverages) == Over(SumNums(termAverages), Len(termAverages))

\* validTerms.length > 0 ? validTerms.reduce(..) / validTerms.length : 0
FinalAverage(termAverages) ==
  LET validTerms == KeepPositive(termAverages)
  IN IF Len(validTerms) > 0
     THEN Over(SumNums(validTerms), Len(validTerms))
     ELSE Num(0)

AnnualRow(student, first, second, third) ==
  LET firstTermResult == FindTermAverage(first, student.name)
      secondTermResult == FindTermAverage(second, student.name)
      thirdTermResult == FindTermAverage(third, student.name)
  IN [student |-> student.name,
      firstTermAverage |-> firstTermResult,
      secondTermAverage |-> secondTermResult,
      thirdTermAverage |-> thirdTermResult,
      finalAverage |-> FinalAverage(<<firstTermResult, secondTermResult, thirdTermResult>>),
      rank |-> 0]

FinalAverages(rows) == [i \in 1..Len(rows) |-> rows[i].finalAverage]

annualResultsWithRank(studs, first, second, third) ==
  LET results == [i \in 1..Len(studs) |-> AnnualRow(studs[i], first, second, third)]
  IN WithRank(SortDescending(results, FinalAverages(results)))

\* ------------------------------------------------------------ statistics calculator
\* statistics over all students, zero averages included
calculateStats_AllStudents(averages) ==
  [classAvg |-> IF Len(averages) > 0
                THEN Over(SumNums(averages), Len(averages))
                ELSE Num(0),
   passPerc |-> IF Len(averages) > 0
                THEN Times(Quot(PassCount(averages), Len(averages)), 100)
                ELSE Num(0)]

\* calculateStats, given results.map(r => r.average) or r.finalAverage
calculateStats(averages) ==
  LET validAverages == KeepPositive(averages)
  IN [classAvg |-> IF Len(validAverages) > 0
                   THEN Over(SumNums(validAverages), Len(validAverages))
                   ELSE Num(0),
      passPerc |-> IF Len(validAverages) > 0
                   THEN Times(Quot(PassCount(validAverages), Len(validAverages)), 100)
                   ELSE Num(0)]

\* ------------------------------------------------------------ operations
\* a recomputation that keeps the rows of the previous result set
calculateSequenceResults_KeepsRows ==
  LET ranked == resultsWithRank(students, subjects, marks, selectedSequence)
      results == SequenceRows(students, subjects, marks, selectedSequence)
  IN /\ sequenceResults' = ranked \o sequenceResults
     /\ sequenceClassAverage' = SequenceClassAvg(results)
     /\ sequencePassPercentage' = SequencePassPerc(results)
     /\ selectedResultView' = "sequence"
     /\ UNCHANGED <<dataVars, selectedSequence, termResultVars, appVars>>

calculateSequenceResults ==
  LET ranked == resultsWithRank(students, subjects, marks, selectedSequence)
      results == SequenceRows(students, subjects, marks, selectedSequence)
  IN /\ sequenceResults' = ranked
     /\ sequenceClassAverage' = SequenceClassAvg(results)
     /\ sequencePassPercentage' = SequencePassPerc(results)
     /\ selectedResultView' = "sequence"
     /\ UNCHANGED <<dataVars, selectedSequence, termResultVars, appVars>>

\* an annual aggregation over the term result sets stored by the run before
calculateTermResults_StoredTerms ==
  \E first \in {calculateTerm(students, subjects, marks, termSequences.firstTerm)},
     second \in {calculateTerm(students, subjects, marks, termSequences.secondTerm)},
     third \in {calculateTerm(students, subjects, marks, termSequences.thirdTerm)} :
    \E annual \in {annualResultsWithRank(students, firstTermResults,
                                         secondTermResults, thirdTermResults)} :
      \E firstTermStats \in {calculateStats(Averages(first))},
         secondTermStats \in {calculateStats(Averages(second))},
         thirdTermStats \in {calculateStats(Averages(third))},
         annualStats \in {calculateStats(FinalAverages(annual))} :
        /\ firstTermResults' = first
        /\ secondTermResults' = second
        /\ thirdTermResults' = third
        /\ annualResults' = annual
        /\ firstTermClassAverage' = firstTermStats.classAvg
        /\ secondTermClassAverage' = secondTermStats.classAvg
        /\ thirdTermClassAverage' = thirdTermStats.classAvg
        /\ annualClassAverage' = annualStats.classAvg
        /\ firstTermPassPercentage' = firstTermStats.passPerc
        /\ secondTermPassPercentage' = secondTermStats.passPerc
        /\ thirdTermPassPercentage' = thirdTermStats.passPerc
        /\ annualPassPercentage' = annualStats.passPerc
        /\ selectedResultView' = "firstTerm"
        /\ UNCHANGED <<dataVars, selectedSequence, seqResultVars, appVars>>

calculateTermResults ==
  \E first \in {calculateTerm(students, subjects, marks, termSequences.firstTerm)},
     second \in {calculateTerm(students, subjects, marks, termSequences.secondTerm)},
     third \in {calculateTerm(students, subjects, marks, termSequences.thirdTerm)} :
    \E annual \in {annualResultsWithRank(students, first, second, third)} :
      \E firstTermStats \in {calculateStats(Averages(first))},
         secondTermStats \in {calculateStats(Averages(second))},
         thirdTermStats \in {calculateStats(Averages(third))},
         annualStats \in {calculateStats(FinalAverages(annual))} :
        /\ firstTermResults' = first
        /\ secondTermResults' = second
        /\ thirdTermResults' = third
        /\ annualResults' = annual
        /\ firstTermClassAverage' = firstTermStats.classAvg
        /\ secondTermClassAverage' = secondTermStats.classAvg
        /\ thirdTermClassAverage' = thirdTermStats.classAvg
        /\ annualClassAverage' = annualStats.classAvg
        /\ firstTermPassPercentage' = firstTermStats.passPerc
        /\ secondTermPassPercentage' = secondTermStats.passPerc
        /\ thirdTermPassPercentage' = thirdTermStats.passPerc
        /\ annualPassPercentage' = annualStats.passPerc
        /\ selectedResultView' = "firstTerm"
        /\ UNCHANGED <<dataVars, selectedSequence, seqResultVars, appVars>>

\* the results state as constructed (useState initial values)
ResultsInit ==
  /\ selectedResultView = "sequence"
  /\ sequenceResults = <<>>
  /\ firstTermResults = <<>>
  /\ secondTermResults = <<>>
  /\ thirdTermResults = <<>>
  /\ annualResults = <<>>
  /\ sequenceClassAverage = Null
  /\ firstTermClassAverage = Null
  /\ secondTermClassAverage = Null
  /\ thirdTermClassAverage = Null
  /\ annualClassAverage = Null
  /\ sequencePassPercentage = Null
  /\ firstTermPassPercentage = Null
  /\ secondTermPassPercentage = Null
  /\ thirdTermPassPercentage = Null
  /\ annualPassPercentage = Null

\* ------------------------------------------------------------ store
\* The Firestore collections users/{uid}/students, subjects, marks and
\* comments.  A collection is the set of its documents, each with its id; the
\* comments collection maps a student id to that student's document.
EmptyStore == [students |-> {}, subjects |-> {}, marks |-> {}, comments |-> <<>>]

\* snapshot.docs of getDocs: the documents in the order of their ids
RECURSIVE DocsById(_)
DocsById(docs) ==
  IF docs = {} THEN <<>>
  ELSE LET d == CHOOSE x \in docs : \A y \in docs : x.id <= y.id
       IN <<d>> \o DocsById(docs \ {d})

\* The outcome of a store call: it rejects while the store is down, and
\* updateDoc rejects when the document does not exist (addDoc, setDoc,
\* deleteDoc and getDocs do not depend on a document).
Outcomes(exists) == {exists /\ ~storeDown}

HasDoc(docs, id) == \E d \in docs : d.id = id

\* Array.prototype.filter
RECURSIVE Filter(_, _)
Filter(s, keep) ==
  IF s = <<>> THEN <<>>
  ELSE IF Head(s) \in keep THEN <<Head(s)>> \o Filter(Tail(s), keep)
  ELSE Filter(Tail(s), keep)

\* a handler call reaches an await: the rest of the call runs later, with the
\* values of the render it was called in
Suspend(op, ok, next) ==
  pending' = Append(pending, [op |-> op, ok |-> ok, next |-> next])

\* no handler call is suspended
Idle == pending = <<>>

\* mark changes come one per keystroke and, from bulk entry, one per cell without
\* an await between them: they overlap each other
CanSuspend ==
  /\ Len(pending) < MaxPending
  /\ \A i \in 1..Len(pending) : pending[i].op = "handleMarkChange"

resultVars == <<seqResultVars, termResultVars>>

\* ------------------------------------------------------------ student handlers
\* a handler that writes without looking at the auth state
handleAddStudent_Unguarded(name) ==
  \E ok \in Outcomes(TRUE) :
    /\ store' = IF ok
                THEN [store EXCEPT !.students = @ \cup {[id |-> nextId, name |-> name]}]
                ELSE store
    /\ nextId' = IF ok THEN nextId + 1 ELSE nextId
    /\ Suspend("handleAddStudent", ok,
               [students |-> Append(students, [id |-> nextId, name |-> name])])
    /\ UNCHANGED <<dataVars, selectedSequence, selectedResultView, resultVars,
                   user, studentComments, errorMessage, report, storeDown, loading, route>>

handleAddStudent(name) ==
  IF user
  THEN \E ok \in Outcomes(TRUE) :
         /\ store' = IF ok
                     THEN [store EXCEPT !.students = @ \cup {[id |-> nextId, name |-> name]}]
                     ELSE store
         /\ nextId' = IF ok THEN nextId + 1 ELSE nextId
         /\ Suspend("handleAddStudent", ok,
                    [students |-> Append(students, [id |-> nextId, name |-> name])])
         /\ UNCHANGED <<dataVars, selectedSequence, selectedResultView, resultVars,
                        user, studentComments, errorMessage, report, storeDown, loading, route>>
  ELSE UNCHANGED vars

handleEditStudent(id, name) ==
  IF user
  THEN \E ok \in Outcomes(HasDoc(store.students, id)) :
         /\ store' = IF ok
                     THEN [store EXCEPT !.students =
                             {IF d.id = id THEN [d EXCEPT !.name = name] ELSE d : d \in @}]
                     ELSE store
         /\ Suspend("handleEditStudent", ok,
                    [students |-> [i \in 1..Len(students) |->
                                     IF students[i].id = id
                                     THEN [students[i] EXCEPT !.name = name]
                                     ELSE students[i]]])
         /\ UNCHANGED <<dataVars, selectedSequence, selectedResultView, resultVars,
                        user, studentComments, errorMessage, nextId, report, storeDown, loading, route>>
  ELSE UNCHANGED vars

handleDeleteStudent(id) ==
  IF user
  THEN \E ok \in Outcomes(TRUE) :
         /\ store' = IF ok
                     THEN [store EXCEPT !.students = {d \in @ : d.id # id}]
                     ELSE store
         /\ Suspend("handleDeleteStudent", ok,
                    [students |-> Filter(students, {s \in Range(students) : s.id # id}),
                     marks |-> Filter(marks, {m \in Range(marks) : m.studentId # id}),
                     studentComments |->
                       [k \in DOMAIN studentComments \ {id} |-> studentComments[k]]])
         /\ UNCHANGED <<dataVars, selectedSequence, selectedResultView, resultVars,
                        user, studentComments, errorMessage, nextId, report, storeDown, loading, route>>
  ELSE UNCHANGED vars

\* ------------------------------------------------------------ subject handlers
handleAddSubject(name, total) ==
  IF user
  THEN \E ok \in Outcomes(TRUE) :
         /\ store' = IF ok
                     THEN [store EXCEPT !.subjects =
                             @ \cup {[id |-> nextId, name |-> name, total |-> total]}]
                     ELSE store
         /\ nextId' = IF ok THEN nextId + 1 ELSE nextId
         /\ Suspend("handleAddSubject", ok,
                    [subjects |-> Append(subjects,
                                         [id |-> nextId, name |-> name, total |-> total])])
         /\ UNCHANGED <<dataVars, selectedSequence, selectedResultView, resultVars,
                        user, studentComments, errorMessage, report, storeDown, loading, route>>
  ELSE UNCHANGED vars

handleEditSubject(id, name, total) ==
  IF user
  THEN \E ok \in Outcomes(HasDoc(store.subjects, id)) :
         /\ store' = IF ok
                     THEN [store EXCEPT !.subjects =
                             {IF d.id = id THEN [d EXCEPT !.name = name, !.total = total]
                              ELSE d : d \in @}]
                     ELSE store
         /\ Suspend("handleEditSubject", ok,
                    [subjects |-> [j \in 1..Len(subjects) |->
                                     IF subjects[j].id = id
                                     THEN [subjects[j] EXCEPT !.name = name, !.total = total]
                                     ELSE subjects[j]]])
         /\ UNCHANGED <<dataVars, selectedSequence, selectedResultView, resultVars,
                        user, studentComments, errorMessage, nextId, report, storeDown, loading, route>>
  ELSE UNCHANGED vars

handleDeleteSubject(id) ==
  IF user
  THEN \E ok \in Outcomes(TRUE) :
         /\ store' = IF ok
                     THEN [store EXCEPT !.subjects = {d \in @ : d.id # id}]
                     ELSE store
         /\ Suspend("handleDeleteSubject", ok,
                    [subjects |-> Filter(subjects, {s \in Range(subjects) : s.id # id}),
                     marks |-> Filter(marks, {m \in Range(marks) : m.subjectId # id})])
         /\ UNCHANGED <<dataVars, selectedSequence, selectedResultView, resultVars,
                        user, studentComments, errorMessage, nextId, report, storeDown, loading, route>>
  ELSE UNCHANGED vars

\* ------------------------------------------------------------ mark handler
\* Number(mark) for the inputs of MarkInputs: [nan, v]
Number(mark) ==
  CASE mark = "0" -> [nan |-> FALSE, v |-> 0]
    [] mark = "1" -> [nan |-> FALSE, v |-> 1]
    [] mark = "2" -> [nan |-> FALSE, v |-> 2]
    [] mark = "3" -> [nan |-> FALSE, v |-> 3]
    [] mark = "-1" -> [nan |-> FALSE, v |-> -1]
    [] OTHER -> [nan |-> TRUE, v |-> 0]

\* a validation without the upper bound
ValidMark_NoUpperBound(mark, maxTotal) ==
  \/ mark = ""
  \/ ~Number(mark).nan /\ Number(mark).v >= 0

\* mark === '' || (typeof numericMark === 'number' && !isNaN(numericMark)
\*                 && numericMark >= 0 && numericMark <= maxTotal)
ValidMark(mark, maxTotal) ==
  \/ mark = ""
  \/ ~Number(mark).nan /\ Number(mark).v >= 0 /\ Number(mark).v <= maxTotal

\* mark === '' ? '' : Number(mark), for a mark that passed the validation
NumericMark(mark) == IF mark = "" THEN EmptyString ELSE Number(mark).v

\* a handler that deletes the Mark record of a cleared cell
handleMarkChange_DeletesCleared(studentId, subjectId, mark, maxTotal) ==
  IF ~ValidMark(mark, maxTotal)
  THEN UNCHANGED vars
  ELSE IF ~user THEN UNCHANGED vars
  ELSE LET numericMark == NumericMark(mark)
           existingMark == FindMark(marks, studentId, subjectId, selectedSequence)
       IN IF existingMark # 0
          THEN \E ok \in Outcomes(HasDoc(store.marks, marks[existingMark].id)) :
                 /\ store' = IF ~ok THEN store
                             ELSE IF numericMark = EmptyString
                             THEN [store EXCEPT !.marks =
                                     {d \in @ : d.id # marks[existingMark].id}]
                             ELSE [store EXCEPT !.marks =
                                     {IF d.id = marks[existingMark].id
                                      THEN [d EXCEPT !.marks = numericMark]
                                      ELSE d : d \in @}]
                 /\ Suspend("handleMarkChange", ok,
                            [marks |-> IF numericMark = EmptyString
                                       THEN Filter(marks, {m \in Range(marks) :
                                                             m.id # marks[existingMark].id})
                                       ELSE [i \in 1..Len(marks) |->
                                               IF marks[i].id = marks[existingMark].id
                                               THEN [marks[i] EXCEPT !.marks = numericMark]
                                               ELSE marks[i]]])
                 /\ UNCHANGED <<dataVars, selectedSequence, selectedResultView, resultVars,
                                user, studentComments, errorMessage, nextId, report,
                                storeDown, loading, route>>
          ELSE IF numericMark # EmptyString
          THEN \E ok \in Outcomes(TRUE) :
                 LET new == [id |-> nextId, studentId |-> studentId,
                             subjectId |-> subjectId, sequence |-> selectedSequence,
                             marks |-> numericMark]
                 IN /\ store' = IF ok THEN [store EXCEPT !.marks = @ \cup {new}] ELSE store
                    /\ nextId' = IF ok THEN nextId + 1 ELSE nextId
                    /\ Suspend("handleMarkChange", ok, [marks |-> Append(marks, new)])
                    /\ UNCHANGED <<dataVars, selectedSequence, selectedResultView,
                                   resultVars, user, studentComments, errorMessage,
                                   report, storeDown, loading, route>>
          ELSE UNCHANGED vars

handleMarkChange(studentId, subjectId, mark, maxTotal) ==
  IF ~ValidMark(mark, maxTotal)
  THEN UNCHANGED vars
  ELSE IF ~user THEN UNCHANGED vars
  ELSE LET numericMark == NumericMark(mark)
           existingMark == FindMark(marks, studentId, subjectId, selectedSequence)
       IN IF existingMark # 0
          THEN \E ok \in Outcomes(HasDoc(store.marks, marks[existingMark].id)) :
                 /\ store' = IF ok
                             THEN [store EXCEPT !.marks =
                                     {IF d.id = marks[existingMark].id
                                      THEN [d EXCEPT !.marks = numericMark]
                                      ELSE d : d \in @}]
                             ELSE store
                 /\ Suspend("handleMarkChange", ok,
                            [marks |-> [i \in 1..Len(marks) |->
                                          IF marks[i].id = marks[existingMark].id
                                          THEN [marks[i] EXCEPT !.marks = numericMark]
                                          ELSE marks[i]]])
                 /\ UNCHANGED <<dataVars, selectedSequence, selectedResultView, resultVars,
                                user, studentComments, errorMessage, nextId, report,
                                storeDown, loading, route>>
          ELSE IF numericMark # EmptyString
          THEN \E ok \in Outcomes(TRUE) :
                 LET new == [id |-> nextId, studentId |-> studentId,
                             subjectId |-> subjectId, sequence |-> selectedSequence,
                             marks |-> numericMark]
                 IN /\ store' = IF ok THEN [store EXCEPT !.marks = @ \cup {new}] ELSE store
                    /\ nextId' = IF ok THEN nextId + 1 ELSE nextId
                    /\ Suspend("handleMarkChange", ok, [marks |-> Append(marks, new)])
                    /\ UNCHANGED <<dataVars, selectedSequence, selectedResultView,
                                   resultVars, user, studentComments, errorMessage,
                                   report, storeDown, loading, route>>
          ELSE UNCHANGED vars

\* subjects.find(s => s.name === subject): the index of the first subject with
\* the name, 0 when there is none
FindSubjectByName(subs, subject) ==
  LET hits == {j \in 1..Len(subs) : subs[j].name = subject}
  IN IF hits = {} THEN 0 ELSE CHOOSE j \in hits : \A k \in hits : j <= k

\* onMarkChange of MarksTable and onSave of BulkMarksEntry
onMarkChange(studentIndex, subject, mark, maxTotal) ==
  LET j == FindSubjectByName(subjects, subject)
  IN IF studentIndex \in 1..Len(students) /\ j # 0
     THEN handleMarkChange(students[studentIndex].id, subjects[j].id, mark, maxTotal)
     ELSE UNCHANGED vars

\* ------------------------------------------------------------ comment handler
handleCommentChange(studentId, sequence, comment) ==
  IF user
  THEN \E ok \in Outcomes(TRUE) :
         LET own == IF studentId \in DOMAIN studentComments
                    THEN studentComments[studentId] ELSE <<>>
             data == (sequence :> comment) @@ own
             old == IF studentId \in DOMAIN store.comments
                    THEN store.comments[studentId] ELSE <<>>
         IN /\ store' = IF ok
                        THEN [store EXCEPT !.comments = (studentId :> (data @@ old)) @@ @]
                        ELSE store
            /\ Suspend("handleCommentChange", ok,
                       [studentId |-> studentId, sequence |-> sequence, comment |-> comment])
            /\ UNCHANGED <<dataVars, selectedSequence, selectedResultView, resultVars,
                           user, studentComments, errorMessage, nextId, report, storeDown, loading, route>>
  ELSE UNCHANGED vars

\* ------------------------------------------------------------ report compiler
\* the studentMarks mapping after the first k Mark records: the pairs
\* <<sequence, subject name>> with a mark value
\* a compilation that fills in 0 for every cell without a Mark
CompileMarks_ZeroFilled(studentId, subs, ms, k) ==
  [key \in Sequences6 \X {subs[j].name : j \in 1..Len(subs)} |->
     LET hits == {i \in 1..k : /\ ms[i].studentId = studentId
                               /\ ms[i].sequence = key[1]
                               /\ \E j \in 1..Len(subs) :
                                    subs[j].id = ms[i].subjectId /\ subs[j].name = key[2]}
     IN IF hits = {} THEN 0 ELSE ms[CHOOSE i \in hits : \A h \in hits : i >= h].marks]

RECURSIVE CompileMarks(_, _, _, _)
CompileMarks(studentId, subs, ms, k) ==
  IF k = 0 THEN <<>>
  ELSE LET prev == CompileMarks(studentId, subs, ms, k - 1)
           m == ms[k]
           hits == {j \in 1..Len(subs) : subs[j].id = m.subjectId}
       IN IF m.studentId = studentId /\ hits # {}
          THEN LET subject == subs[CHOOSE j \in hits : \A i \in hits : j <= i]
               IN (<<m.sequence, subject.name>> :> m.marks) @@ prev
          ELSE prev

NoReport == [student |-> "", studentId |-> 0, studentMarks |-> <<>>]

handleGenerateStudentReport(studentId) ==
  LET hits == {i \in 1..Len(students) : students[i].id = studentId}
  IN IF hits # {}
     THEN /\ report' = [student |-> students[CHOOSE i \in hits : \A j \in hits : i <= j].name,
                        studentId |-> studentId,
                        studentMarks |-> CompileMarks(studentId, subjects, marks, Len(marks))]
          /\ UNCHANGED <<dataVars, selectedSequence, selectedResultView, resultVars,
                         user, store, studentComments, errorMessage, pending, nextId,
                         storeDown, loading, route>>
     ELSE UNCHANGED vars

\* generateStudentReport(..) returns
generateStudentReport ==
  /\ report # NoReport
  /\ report' = NoReport
  /\ UNCHANGED <<dataVars, selectedSequence, selectedResultView, resultVars,
                 user, store, studentComments, errorMessage, pending, nextId,
                 storeDown, loading, route>>

\* ------------------------------------------------------------ reset, fetch, session
handleResetData(confirmed) ==
  IF user /\ confirmed
  THEN \E ok \in Outcomes(TRUE) :
         /\ Suspend("handleResetData", ok, <<>>)
         /\ UNCHANGED <<dataVars, selectedSequence, selectedResultView, resultVars,
                        user, store, studentComments, errorMessage, nextId, report,
                        storeDown, loading, route>>
  ELSE UNCHANGED vars

\* the effect of lines 80-125, run when user or t changes
fetchData ==
  IF user'
  THEN \E ok \in Outcomes(TRUE) : Suspend("fetchData", ok, <<>>)
  ELSE UNCHANGED pending

\* useEffect(.., [user, loading, navigate]): the location after the effect
redirect(u, l, r) == IF ~l /\ ~u THEN "/login" ELSE r

\* useAuthState reports the auth state of the browser: a user the session
\* has kept, or none
authStateLoaded ==
  /\ loading
  /\ loading' = FALSE
  /\ user' \in BOOLEAN
  /\ route' = redirect(user', loading', route)
  /\ fetchData
  /\ UNCHANGED <<dataVars, selectedSequence, selectedResultView, resultVars,
                 store, studentComments, errorMessage, nextId, report, storeDown>>

\* the Login page signs a user in and navigates to the application
SignIn ==
  /\ ~user
  /\ user' = TRUE
  /\ route' = "/"
  /\ fetchData
  /\ UNCHANGED <<dataVars, selectedSequence, selectedResultView, resultVars,
                 store, studentComments, errorMessage, nextId, report, storeDown, loading>>

handleLanguageChange ==
  /\ UNCHANGED user
  /\ fetchData
  /\ UNCHANGED <<dataVars, selectedSequence, selectedResultView, resultVars,
                 store, studentComments, errorMessage, nextId, report, storeDown, loading, route>>

handleLogout ==
  /\ user
  /\ user' = FALSE
  /\ route' = "/login"
  /\ UNCHANGED <<dataVars, selectedSequence, selectedResultView, resultVars,
                 store, studentComments, errorMessage, pending, nextId, report, storeDown,
                 loading>>

\* a selector that recomputes the sequence results for the sequence it selects
setSelectedSequence_Recomputes(sequence) ==
  /\ selectedSequence' = sequence
  /\ sequenceResults' = resultsWithRank(students, subjects, marks, sequence)
  /\ UNCHANGED <<dataVars, selectedResultView, sequenceClassAverage,
                 sequencePassPercentage, termResultVars, appVars>>

setSelectedSequence(sequence) ==
  /\ selectedSequence' = sequence
  /\ UNCHANGED <<dataVars, selectedResultView, resultVars, appVars>>

setSelectedResultView(view) ==
  /\ selectedResultView' = view
  /\ UNCHANGED <<dataVars, selectedSequence, resultVars, appVars>>

\* onClose of the error alert
setErrorMessage(message) ==
  /\ errorMessage' = message
  /\ UNCHANGED <<dataVars, selectedSequence, selectedResultView, resultVars,
                 user, store, studentComments, pending, nextId, report, storeDown, loading, route>>

\* ------------------------------------------------------------ after the await
\* the message of the catch block of a handler
ErrorOf(op) ==
  CASE op = "fetchData" -> "error_fetching_data"
    [] op = "handleAddStudent" -> "error_adding_student"
    [] op = "handleEditStudent" -> "error_editing_student"
    [] op = "handleDeleteStudent" -> "error_deleting_student"
    [] op = "handleAddSubject" -> "error_adding_subject"
    [] op = "handleEditSubject" -> "error_editing_subject"
    [] op = "handleDeleteSubject" -> "error_deleting_subject"
    [] op = "handleMarkChange" -> "error_saving_marks"
    [] op = "handleCommentChange" -> "error_saving_comment"
    [] OTHER -> "error_resetting_data"

Without(s, i) == SubSeq(s, 1, i - 1) \o SubSeq(s, i + 1, Len(s))

\* the awaited store call rejected: the catch block
Catch(i) ==
  /\ i \in 1..Len(pending)
  /\ ~pending[i].ok
  /\ pending' = Without(pending, i)
  /\ errorMessage' = ErrorOf(pending[i].op)
  /\ UNCHANGED <<dataVars, selectedSequence, selectedResultView, resultVars,
                 user, store, studentComments, nextId, report, storeDown, loading, route>>

WriteOps ==
  {"handleAddStudent", "handleEditStudent", "handleDeleteStudent", "handleAddSubject",
   "handleEditSubject", "handleDeleteSubject", "handleMarkChange"}

\* setters that run whether the awaited store call resolved or rejected
ResumeWrite_Optimistic(i) ==
  /\ i \in 1..Len(pending)
  /\ pending[i].op \in WriteOps
  /\ LET next == pending[i].next
     IN /\ students' = IF "students" \in DOMAIN next THEN next.students ELSE students
        /\ subjects' = IF "subjects" \in DOMAIN next THEN next.subjects ELSE subjects
        /\ marks' = IF "marks" \in DOMAIN next THEN next.marks ELSE marks
        /\ studentComments' = IF "studentComments" \in DOMAIN next
                              THEN next.studentComments ELSE studentComments
  /\ pending' = Without(pending, i)
  /\ UNCHANGED <<selectedSequence, selectedResultView, resultVars,
                 user, store, errorMessage, nextId, report, storeDown, loading, route>>

\* the setStudents / setSubjects / setMarks / setStudentComments calls after
\* the await of a student, subject or mark handler, with the lists of the
\* render the handler was called in
ResumeWrite(i) ==
  /\ i \in 1..Len(pending)
  /\ pending[i].ok
  /\ pending[i].op \in WriteOps
  /\ LET next == pending[i].next
     IN /\ students' = IF "students" \in DOMAIN next THEN next.students ELSE students
        /\ subjects' = IF "subjects" \in DOMAIN next THEN next.subjects ELSE subjects
        /\ marks' = IF "marks" \in DOMAIN next THEN next.marks ELSE marks
        /\ studentComments' = IF "studentComments" \in DOMAIN next
                              THEN next.studentComments ELSE studentComments
  /\ pending' = Without(pending, i)
  /\ UNCHANGED <<selectedSequence, selectedResultView, resultVars,
                 user, store, errorMessage, nextId, report, storeDown, loading, route>>

\* setStudentComments(prev => ..) after the await of handleCommentChange
ResumeCommentChange(i) ==
  /\ i \in 1..Len(pending)
  /\ pending[i].ok
  /\ pending[i].op = "handleCommentChange"
  /\ LET c == pending[i].next
         prev == IF c.studentId \in DOMAIN studentComments
                 THEN studentComments[c.studentId] ELSE <<>>
     IN studentComments' =
          (c.studentId :> ((c.sequence :> c.comment) @@ prev)) @@ studentComments
  /\ pending' = Without(pending, i)
  /\ UNCHANGED <<dataVars, selectedSequence, selectedResultView, resultVars,
                 user, store, errorMessage, nextId, report, storeDown, loading, route>>

\* the four getDocs of fetchData and their setters
ResumeFetchData(i) ==
  /\ i \in 1..Len(pending)
  /\ pending[i].ok
  /\ pending[i].op = "fetchData"
  /\ students' = DocsById(store.students)
  /\ subjects' = DocsById(store.subjects)
  /\ marks' = DocsById(store.marks)
  /\ studentComments' = store.comments
  /\ pending' = Without(pending, i)
  /\ UNCHANGED <<selectedSequence, selectedResultView, resultVars,
                 user, store, errorMessage, nextId, report, storeDown, loading, route>>

\* the delete loops of handleResetData and the setters after them
ResumeResetData(i) ==
  /\ i \in 1..Len(pending)
  /\ pending[i].ok
  /\ pending[i].op = "handleResetData"
  /\ store' = EmptyStore
  /\ students' = <<>>
  /\ subjects' = <<>>
  /\ marks' = <<>>
  /\ studentComments' = <<>>
  /\ sequenceResults' = <<>>
  /\ firstTermResults' = <<>>
  /\ secondTermResults' = <<>>
  /\ thirdTermResults' = <<>>
  /\ annualResults' = <<>>
  /\ selectedSequence' = "firstSequence"
  /\ selectedResultView' = "sequence"
  /\ pending' = Without(pending, i)
  /\ UNCHANGED <<sequenceClassAverage, sequencePassPercentage,
                 firstTermClassAverage, secondTermClassAverage, thirdTermClassAverage,
                 annualClassAverage, firstTermPassPercentage, secondTermPassPercentage,
                 thirdTermPassPercentage, annualPassPercentage,
                 user, errorMessage, nextId, report, storeDown, loading, route>>

\* ------------------------------------------------------------ the application
\* const hasMarks = marks.some(m => m.marks !== '')
hasMarks == \E i \in 1..Len(marks) : marks[i].marks # EmptyString

\* {students.length > 0 && subjects.length > 0 && (..)}: the marks panel
MarksPanelShown == Len(students) > 0 /\ Len(subjects) > 0

\* what earlier sessions left in the store
InitialStores == {EmptyStore}

Init ==
  /\ students = <<>>
  /\ subjects = <<>>
  /\ marks = <<>>
  /\ selectedSequence = "firstSequence"
  /\ ResultsInit
  /\ user = FALSE
  /\ store \in InitialStores
  /\ studentComments = <<>>
  /\ errorMessage = ""
  /\ pending = <<>>
  /\ nextId = Cardinality(store.students) + Cardinality(store.subjects) + 1
  /\ report = NoReport
  /\ storeDown = FALSE
  /\ loading = TRUE
  /\ route = "/"

\* JavaScript runs a synchronous call to its end: nothing else happens while
\* generateStudentReport holds the report; while useAuthState is loading the
\* component renders "Loading..." only
Ready == ~loading /\ report = NoReport

\* the student, subject, mark and comment forms, with the inputs typed into
\* them; a form is used when the call before it has run to its end
Entry(names, subjectNames, markInputs) ==
  \/ \E name \in names :
       Ready /\ Idle /\ nextId <= MaxDocs /\ handleAddStudent(name)
  \/ \E i \in 1..Len(students), name \in names :
       Ready /\ Idle /\ handleEditStudent(students[i].id, name)
  \/ \E i \in 1..Len(students) :
       Ready /\ Idle /\ handleDeleteStudent(students[i].id)
  \/ \E name \in subjectNames, total \in TotalInputs :
       /\ Ready /\ Idle /\ nextId <= MaxDocs /\ Len(students) > 0
       /\ handleAddSubject(name, total)
  \/ \E j \in 1..Len(subjects), name \in subjectNames, total \in TotalInputs :
       Ready /\ Idle /\ handleEditSubject(subjects[j].id, name, total)
  \/ \E j \in 1..Len(subjects) :
       Ready /\ Idle /\ handleDeleteSubject(subjects[j].id)
  \/ \E i \in 1..Len(students), j \in 1..Len(subjects), mark \in markInputs :
       /\ Ready /\ Idle /\ nextId <= MaxDocs
       /\ onMarkChange(i, subjects[j].name, mark,
                       subjects[FindSubjectByName(subjects, subjects[j].name)].total)
  \/ \E i \in 1..Len(students), comment \in CommentInputs :
       /\ Ready /\ Idle /\ MarksPanelShown
       /\ handleCommentChange(students[i].id, selectedSequence, comment)
  \/ \E sequence \in EntrySequences :
       Ready /\ MarksPanelShown /\ setSelectedSequence(sequence)

\* the session: sign in and out, the language menu, the reset button
Session ==
  \/ authStateLoaded
  \/ Ready /\ Idle /\ SignIn
  \/ Ready /\ handleLogout
  \/ Ready /\ Idle /\ handleLanguageChange
  \/ \E confirmed \in BOOLEAN : Ready /\ Idle /\ handleResetData(confirmed)

\* the report modal
Reports ==
  \/ \E studentId \in 1..(nextId - 1) :
       Ready /\ handleGenerateStudentReport(studentId)
  \/ generateStudentReport

\* the calculate buttons and the result view selector
Results ==
  \/ Ready /\ MarksPanelShown /\ hasMarks /\ calculateSequenceResults
  \/ Ready /\ MarksPanelShown /\ hasMarks /\ calculateTermResults
  \/ \E view \in ResultViews :
       Ready /\ Len(sequenceResults) > 0 /\ setSelectedResultView(view)

\* a suspended handler call runs on
Continuation ==
  \/ \E i \in 1..Len(pending) : Ready /\ ResumeWrite(i)
  \/ \E i \in 1..Len(pending) : Ready /\ ResumeCommentChange(i)
  \/ \E i \in 1..Len(pending) : Ready /\ ResumeFetchData(i)
  \/ \E i \in 1..Len(pending) : Ready /\ ResumeResetData(i)

\* data entry: the forms, the session and the reports
Next ==
  \/ Entry(StudentNames, SubjectNamesIn, MarkInputs)
  \/ Session
  \/ Reports
  \/ Continuation

Spec == Init /\ [][Next]_vars

\* the whole application: data entry and the calculations, for a class
\* whose students and subjects are entered under one name each
NextApp ==
  \/ Entry(AppStudentNames, AppSubjectNames, AppMarkInputs)
  \/ Session
  \/ Reports
  \/ Results
  \/ Continuation

SpecApp == Init /\ [][NextApp]_vars

\* mark entry for a class the store already holds, where a cell is changed
\* while the write of an earlier change is still awaited (one change event
\* per keystroke in MarksTable, one onSave per cell in BulkMarksEntry)
ClassStore ==
  [students |-> {[id |-> 11, name |-> "A"]},
   subjects |-> {[id |-> 12, name |-> "Maths", total |-> 2]},
   marks |-> {},
   comments |-> <<>>]

InitBulk ==
  /\ students = <<>>
  /\ subjects = <<>>
  /\ marks = <<>>
  /\ selectedSequence = "firstSequence"
  /\ ResultsInit
  /\ user = FALSE
  /\ store = ClassStore
  /\ studentComments = <<>>
  /\ errorMessage = ""
  /\ pending = <<>>
  /\ nextId = 1
  /\ report = NoReport
  /\ storeDown = FALSE
  /\ loading = FALSE
  /\ route = "/login"

NextBulk ==
  \/ Ready /\ Idle /\ SignIn
  \/ Ready /\ Idle /\ handleLanguageChange
  \/ \E i \in 1..Len(students), j \in 1..Len(subjects), mark \in BulkMarkInputs :
       /\ Ready /\ CanSuspend /\ nextId <= MaxDocs
       /\ onMarkChange(i, subjects[j].name, mark,
                       subjects[FindSubjectByName(subjects, subjects[j].name)].total)
  \/ \E sequence \in EntrySequences :
       Ready /\ MarksPanelShown /\ setSelectedSequence(sequence)
  \/ \E i \in 1..Len(pending) : Ready /\ ResumeWrite(i)
  \/ \E i \in 1..Len(pending) : Ready /\ ResumeFetchData(i)

SpecBulk == InitBulk /\ [][NextBulk]_vars

\* a class of two students the store already holds: the student list changes
\* between two calculations
SchoolStore ==
  [students |-> {[id |-> 11, name |-> "A"], [id |-> 13, name |-> "B"]},
   subjects |-> {[id |-> 12, name |-> "Maths", total |-> 2]},
   marks |-> {},
   comments |-> <<>>]

InitClass ==
  /\ students = <<>>
  /\ subjects = <<>>
  /\ marks = <<>>
  /\ selectedSequence = "firstSequence"
  /\ ResultsInit
  /\ user = FALSE
  /\ store = SchoolStore
  /\ studentComments = <<>>
  /\ errorMessage = ""
  /\ pending = <<>>
  /\ nextId = 1
  /\ report = NoReport
  /\ storeDown = FALSE
  /\ loading = FALSE
  /\ route = "/login"

NextClass ==
  \/ Ready /\ Idle /\ SignIn
  \/ \E i \in 1..Len(students), name \in StudentNames :
       Ready /\ Idle /\ handleEditStudent(students[i].id, name)
  \/ \E i \in 1..Len(students) :
       Ready /\ Idle /\ handleDeleteStudent(students[i].id)
  \/ \E i \in 1..Len(students), j \in 1..Len(subjects), mark \in ClassMarkInputs :
       /\ Ready /\ Idle /\ nextId <= MaxDocs
       /\ onMarkChange(i, subjects[j].name, mark,
                       subjects[FindSubjectByName(subjects, subjects[j].name)].total)
  \/ Results
  \/ \E i \in 1..Len(pending) : Ready /\ ResumeWrite(i)
  \/ \E i \in 1..Len(pending) : Ready /\ ResumeFetchData(i)

SpecClass == InitClass /\ [][NextClass]_vars

\* overlapping mark changes on the class of two students: the cells of two
\* students are changed while the first write is still awaited
SpecBulkClass == InitClass /\ [][NextBulk]_vars

\* mark entry and the calculations for a class the store already holds: a
\* cell is filled, changed and cleared, one call after the other
NextMarks ==
  \/ Ready /\ Idle /\ SignIn
  \/ \E i \in 1..Len(students), j \in 1..Len(subjects), mark \in BulkMarkInputs :
       /\ Ready /\ Idle /\ nextId <= MaxDocs
       /\ onMarkChange(i, subjects[j].name, mark,
                       subjects[FindSubjectByName(subjects, subjects[j].name)].total)
  \/ \E sequence \in EntrySequences :
       Ready /\ MarksPanelShown /\ setSelectedSequence(sequence)
  \/ Results
  \/ \E i \in 1..Len(pending) : Ready /\ ResumeWrite(i)
  \/ \E i \in 1..Len(pending) : Ready /\ ResumeFetchData(i)

SpecMarks == InitBulk /\ [][NextMarks]_vars

\* the store starts or stops rejecting the calls made to it (network loss,
\* security rules)
StoreFault ==
  /\ storeDown' = ~storeDown
  /\ UNCHANGED <<dataVars, selectedSequence, selectedResultView, resultVars,
                 user, store, studentComments, errorMessage, pending, nextId, report,
                 loading, route>>

\* data entry against a store that can reject calls: the catch blocks run and
\* the error alert is closed
NextFaults ==
  \/ Entry(AppStudentNames, AppSubjectNames, FaultMarkInputs)
  \/ authStateLoaded
  \/ Ready /\ Idle /\ SignIn
  \/ \E confirmed \in BOOLEAN : Ready /\ Idle /\ handleResetData(confirmed)
  \/ Ready /\ Idle /\ StoreFault
  \/ Ready /\ Idle /\ errorMessage # "" /\ setErrorMessage("")
  \/ Continuation
  \/ \E i \in 1..Len(pending) : Ready /\ Catch(i)

SpecFaults == Init /\ [][NextFaults]_vars

\* ------------------------------------------------------------ snapshots
\* The aggregators read a snapshot (students, subjects, marks, selectedSequence)
\* and write the results state.  SpecCalc starts from every snapshot within
\* the bounds, with the results state as constructed (useState initial values).
SeqIndex(sequence) == CHOOSE i \in 1..Len(SequenceNames) : SequenceNames[i] = sequence

\* name indices in order of first appearance (restricted growth)
NameChoices(n) ==
  {f \in [1..n -> 1..n] :
     \A i \in 1..n : \/ f[i] = 1
                     \/ \E j \in 1..(i - 1) : f[j] >= f[i] - 1}

StudentLists(maxLen) ==
  UNION {{[i \in 1..n |-> [id |-> i, name |-> Names[nm[i]]]] : nm \in NameChoices(n)} :
         n \in 0..maxLen}

SubjectLists(maxLen) ==
  UNION {{[j \in 1..n |-> [id |-> j, name |-> SubjectNames[j], total |-> tot[j]]] :
            tot \in [1..n -> Totals]} :
         n \in 0..maxLen}

CellCode(m) == (m.studentId * (MaxEntities + 2) + m.subjectId) * 8 + SeqIndex(m.sequence)

\* at most maxLen Mark records of existing students and subjects, at most
\* one per (studentId, subjectId, sequence), listed in the order of their cells
MarkLists(studs, subs, maxLen) ==
  LET Recs == [studentId : 1..Len(studs), subjectId : 1..Len(subs),
               sequence : MarkSequences, marks : MarkValues]
      Lists == UNION {[1..k -> Recs] : k \in 0..maxLen}
  IN {[i \in 1..Len(l) |-> ("id" :> i) @@ l[i]] :
        l \in {x \in Lists : \A i \in 1..Len(x) - 1 : CellCode(x[i]) < CellCode(x[i + 1])}}

InitCalc ==
  /\ students \in StudentLists(MaxEntities)
  /\ subjects \in SubjectLists(MaxEntities - Len(students))
  /\ marks \in MarkLists(students, subjects, MaxEntities - Len(students) - Len(subjects))
  /\ selectedSequence \in {"firstSequence"} \cup {marks[i].sequence : i \in 1..Len(marks)}
  /\ ResultsInit
  /\ user = TRUE
  /\ store = [students |-> Range(students), subjects |-> Range(subjects),
              marks |-> Range(marks), comments |-> <<>>]
  /\ studentComments = <<>>
  /\ errorMessage = ""
  /\ pending = <<>>
  /\ nextId = Len(students) + Len(subjects) + Len(marks) + 1
  /\ report = NoReport
  /\ storeDown = FALSE
  /\ loading = FALSE
  /\ route = "/"

NextCalc ==
  \/ calculateSequenceResults
  \/ calculateTermResults

SpecCalc == InitCalc /\ [][NextCalc]_vars

\* ------------------------------------------------------------ properties
\* The statements below describe the results state in terms of the snapshot,
\* with sums over sets of cells and with products instead of quotients.
SeqComputed == sequenceClassAverage # Null

TermComputed == firstTermClassAverage # Null

NumStudents == Len(students)

Perms(n) == {f \in [1..n -> 1..n] : \A a, b \in 1..n : a # b => f[a] # f[b]}

RECURSIVE SumTo(_, _)
SumTo(f, n) == IF n = 0 THEN 0 ELSE f[n] + SumTo(f, n - 1)

\* the value of the Mark record of a cell, 0 when the cell has no record
CellValue(studentId, subjectId, sequence) ==
  LET S == {i \in 1..Len(marks) : /\ marks[i].studentId = studentId
                                 /\ marks[i].subjectId = subjectId
                                 /\ marks[i].sequence = sequence}
  IN IF S = {} THEN 0
     ELSE LET v == marks[CHOOSE i \in S : TRUE].marks
          IN IF v = EmptyString THEN 0 ELSE v

\* the sum over all subjects of student i's marks of one sequence
CellSum(i, sequence) ==
  SumTo([j \in 1..Len(subjects) |->
           CellValue(students[i].id, subjects[j].id, sequence)], Len(subjects))

\* the sum of every subject's total
PossibleSum == SumTo([j \in 1..Len(subjects) |-> subjects[j].total], Len(subjects))

\* x is the number num / den (den > 0)
IsRatio(x, num, den) == x.d > 0 /\ x.n * den = num * x.d

InRange0to20(x) == x.d > 0 /\ x.n >= 0 /\ x.n <= 20 * x.d

\* x * k = the sum of the numbers s[i], i in the set I
IsMeanOf(x, s, I) ==
  /\ x.d > 0
  /\ \E z \in {SumNums([k \in 1..Len(s) |-> IF k \in I THEN s[k] ELSE Num(0)])} :
       z.d > 0 /\ x.n * Cardinality(I) * z.d = z.n * x.d

AllResultSets ==
  <<sequenceResults, firstTermResults, secondTermResults, thirdTermResults>>

TermResultSets == <<firstTermResults, secondTermResults, thirdTermResults>>

TermNames == <<"firstTerm", "secondTerm", "thirdTerm">>

\* row r of the sequence result set is the row of student i
SequenceRowOf(r, i) ==
  /\ r.student = students[i].name
  /\ r.totalMarks = CellSum(i, selectedSequence)
  /\ IF PossibleSum > 0
     THEN IsRatio(r.average, 20 * CellSum(i, selectedSequence), PossibleSum)
     ELSE r.average = Num(0)

\* C1: after calculateSequenceResults every student has a row whose totalMarks
\* is the sum over all subjects of the student's mark of the selected sequence
\* (0 for a cell without a Mark record) and whose average is
\* totalMarks / (sum of all subject totals) * 20, or 0 when that sum is 0.
C1_SequenceTotals ==
  SeqComputed =>
    /\ Len(sequenceResults) = NumStudents
    /\ \E p \in Perms(NumStudents) :
         \A i \in 1..NumStudents : SequenceRowOf(sequenceResults[p[i]], i)

\* a student with a mark of the selected sequence in one subject and no Mark
\* record in another subject has been aggregated
C1_Witness ==
  /\ SeqComputed
  /\ \E i \in 1..NumStudents : \E j, k \in 1..Len(subjects) :
       /\ CellValue(students[i].id, subjects[j].id, selectedSequence) > 0
       /\ FindMark(marks, students[i].id, subjects[k].id, selectedSequence) = 0
       /\ \E p \in 1..Len(sequenceResults) :
            /\ sequenceResults[p].totalMarks > 0
            /\ Gt(sequenceResults[p].average, Num(0))

\* the sequences of term t whose marks of student i sum to more than 0
CountedSequences(i, t) ==
  {k \in 1..2 : CellSum(i, termSequences[TermNames[t]][k]) > 0}

CountedMarks(i, t) ==
  SumTo([k \in 1..2 |-> IF k \in CountedSequences(i, t)
                        THEN CellSum(i, termSequences[TermNames[t]][k]) ELSE 0], 2)

\* row r of the result set of term t is the row of student i
TermRowOf(r, i, t) ==
  /\ r.student = students[i].name
  /\ r.totalMarks = CountedMarks(i, t)
  /\ IF CountedSequences(i, t) # {}
     THEN r.average = Quot(20 * CountedMarks(i, t),
                           Cardinality(CountedSequences(i, t)) * PossibleSum)
     ELSE r.average = Num(0)

\* the average of the highest-ranked row of a term result set with a name
AverageByName(rows, name) ==
  LET S == {p \in 1..Len(rows) : rows[p].student = name}
  IN IF S = {} THEN Num(0)
     ELSE rows[CHOOSE p \in S : \A q \in S : rows[p].rank <= rows[q].rank].average

TermAveragesOf(r) == <<r.firstTermAverage, r.secondTermAverage, r.thirdTermAverage>>

PositiveTerms(r) == {t \in 1..3 : Gt(TermAveragesOf(r)[t], Num(0))}

\* finalAverage of an annual row is the mean of its term averages that are > 0
FinalIsMeanOfPositive(r) ==
  IF PositiveTerms(r) = {} THEN r.finalAverage = Num(0)
  ELSE IsMeanOf(r.finalAverage, TermAveragesOf(r), PositiveTerms(r))

\* row r of the annual result set is the row of student i
AnnualRowOf(r, i) ==
  /\ r.student = students[i].name
  /\ \A t \in 1..3 : TermAveragesOf(r)[t] = AverageByName(TermResultSets[t], students[i].name)
  /\ FinalIsMeanOfPositive(r)

KeyOf(r) == IF "finalAverage" \in DOMAIN r THEN r.finalAverage ELSE r.average

RanksDense(rows) ==
  /\ Len(rows) = NumStudents
  /\ \A p \in 1..Len(rows) : rows[p].rank \in 1..NumStudents
  /\ \A k \in 1..NumStudents : Cardinality({p \in 1..Len(rows) : rows[p].rank = k}) = 1

HasTie(rows) ==
  \E p, q \in 1..Len(rows) : p # q /\ KeyOf(rows[p]) = KeyOf(rows[q])

\* C2: each computed result set (sequence, three terms, annual) has one row per
\* student and its ranks are exactly 1..N, each used once, ties included.
C2_RanksDense ==
  /\ SeqComputed => RanksDense(sequenceResults)
  /\ TermComputed => /\ \A t \in 1..3 : RanksDense(TermResultSets[t])
                     /\ RanksDense(annualResults)

\* all result sets computed, with two students of identical average in each
C2_Witness ==
  /\ SeqComputed /\ TermComputed
  /\ NumStudents >= 2
  /\ HasTie(sequenceResults)
  /\ HasTie(firstTermResults)
  /\ HasTie(annualResults)

\* the rows are those of the students, and of two students with equal key
\* the earlier one of the student list has the smaller rank
StablyRanked(rows, RowOf(_, _)) ==
  /\ Len(rows) = NumStudents
  /\ \E p \in Perms(NumStudents) :
       /\ \A i \in 1..NumStudents : RowOf(rows[p[i]], i)
       /\ \A i, j \in 1..NumStudents :
            (i < j /\ KeyOf(rows[p[i]]) = KeyOf(rows[p[j]]))
              => rows[p[i]].rank < rows[p[j]].rank

FirstTermRowOf(r, i) == TermRowOf(r, i, 1)

SecondTermRowOf(r, i) == TermRowOf(r, i, 2)

ThirdTermRowOf(r, i) == TermRowOf(r, i, 3)

\* C3: the sort is stable in the sequence, term and annual result sets: of two
\* students with equal average (finalAverage), the earlier one of the student
\* list has the smaller rank.
C3_StableSort ==
  /\ SeqComputed => StablyRanked(sequenceResults, SequenceRowOf)
  /\ TermComputed => /\ StablyRanked(firstTermResults, FirstTermRowOf)
                     /\ StablyRanked(secondTermResults, SecondTermRowOf)
                     /\ StablyRanked(thirdTermResults, ThirdTermRowOf)
                     /\ StablyRanked(annualResults, AnnualRowOf)

\* two students with different names and the same average were ranked, the
\* earlier one first, in the sequence, a term and the annual set
C3_Witness ==
  /\ SeqComputed /\ TermComputed
  /\ NumStudents >= 2
  /\ students[1].name # students[2].name
  /\ \A rows \in {sequenceResults, firstTermResults, annualResults} :
       \E p, q \in 1..Len(rows) :
         /\ rows[p].student = students[1].name
         /\ rows[q].student = students[2].name
         /\ KeyOf(rows[p]) = KeyOf(rows[q])
         /\ rows[p].rank < rows[q].rank

Descending(rows) ==
  \A p, q \in 1..Len(rows) :
    rows[p].rank < rows[q].rank => Geq(KeyOf(rows[p]), KeyOf(rows[q]))

\* C4: in every computed result set rank(a) < rank(b) implies
\* average(a) >= average(b) (finalAverage for the annual set).
C4_DescendingOrder ==
  /\ SeqComputed => Descending(sequenceResults)
  /\ TermComputed => /\ \A t \in 1..3 : Descending(TermResultSets[t])
                     /\ Descending(annualResults)

\* a later student of the list has the higher average and was ranked first
C4_Witness ==
  /\ SeqComputed /\ TermComputed
  /\ NumStudents >= 2
  /\ students[1].name # students[2].name
  /\ \A rows \in {sequenceResults, firstTermResults, annualResults} :
       \E p, q \in 1..Len(rows) :
         /\ rows[p].student = students[1].name
         /\ rows[q].student = students[2].name
         /\ Gt(KeyOf(rows[q]), KeyOf(rows[p]))
         /\ rows[q].rank < rows[p].rank

\* the mark values are numbers between 0 and their subject's total, and no two
\* Mark records share a (studentId, subjectId, sequence) cell
MarksBounded ==
  /\ \A i \in 1..Len(marks) :
       /\ marks[i].marks # EmptyString /\ marks[i].marks >= 0
       /\ \A j \in 1..Len(subjects) :
            subjects[j].id = marks[i].subjectId => marks[i].marks <= subjects[j].total
  /\ \A i, j \in 1..Len(marks) :
       (/\ marks[i].studentId = marks[j].studentId
        /\ marks[i].subjectId = marks[j].subjectId
        /\ marks[i].sequence = marks[j].sequence) => i = j

PositiveTotals ==
  /\ Len(subjects) > 0
  /\ \A j \in 1..Len(subjects) : subjects[j].total > 0

\* C5: with a non-empty subject list of positive totals and marks that are
\* non-negative, at most their subject's total and unique per cell, every
\* sequence average, term average and annual finalAverage lies in [0, 20].
C5_AveragesInRange ==
  (PositiveTotals /\ MarksBounded) =>
    /\ SeqComputed =>
         \A p \in 1..Len(sequenceResults) : InRange0to20(sequenceResults[p].average)
    /\ TermComputed =>
         /\ \A t \in 1..3 : \A p \in 1..Len(TermResultSets[t]) :
              InRange0to20(TermResultSets[t][p].average)
         /\ \A p \in 1..Len(annualResults) : InRange0to20(annualResults[p].finalAverage)

\* a student with full marks in the selected sequence and both sequences of
\* the first term counted has been aggregated at all three levels
C5_Witness ==
  /\ PositiveTotals /\ MarksBounded
  /\ SeqComputed /\ TermComputed
  /\ \E i \in 1..NumStudents : CountedSequences(i, 1) = {1, 2}
  /\ \E p \in 1..Len(sequenceResults) : sequenceResults[p].average = Num(20)
  /\ \E p \in 1..Len(firstTermResults) :
       /\ Gt(firstTermResults[p].average, Num(0))
       /\ Gt(Num(20), firstTermResults[p].average)
  /\ \E p \in 1..Len(annualResults) : Gt(annualResults[p].finalAverage, Num(0))

PassingRows(rows, I) == {p \in I : Geq(KeyOf(rows[p]), Num(PASSING_MARK))}

KeysOf(rows) == [p \in 1..Len(rows) |-> KeyOf(rows[p])]

\* C6: the sequence class average is the mean of average over all N students
\* (zeros included), the pass percentage is 100 * |{average >= 10}| / N, and
\* both are 0 when N = 0.
C6_SequenceStatistics ==
  SeqComputed =>
    IF NumStudents = 0
    THEN sequenceClassAverage = Num(0) /\ sequencePassPercentage = Num(0)
    ELSE /\ Len(sequenceResults) = NumStudents
         /\ IsMeanOf(sequenceClassAverage, KeysOf(sequenceResults), 1..NumStudents)
         /\ IsRatio(sequencePassPercentage,
                    100 * Cardinality(PassingRows(sequenceResults, 1..NumStudents)),
                    NumStudents)

\* two students, one with average exactly 10 and one with average 0: the class
\* average is 5 and the pass percentage 50
C6_Witness ==
  /\ SeqComputed
  /\ NumStudents = 2
  /\ \E p, q \in 1..Len(sequenceResults) :
       /\ sequenceResults[p].average = Num(PASSING_MARK)
       /\ sequenceResults[q].average = Num(0)
  /\ sequenceClassAverage = Num(5)
  /\ sequencePassPercentage = Num(50)

\* C7: in each term result set, every student's row has as totalMarks the sum
\* of the mark sums of the term's sequences whose mark sum is > 0, and as
\* average totalMarks / (number of those sequences * sum of subject totals) * 20,
\* or 0 when there is no such sequence.
C7_TermAggregation ==
  TermComputed =>
    \A t \in 1..3 :
      /\ Len(TermResultSets[t]) = NumStudents
      /\ \E p \in Perms(NumStudents) :
           \A i \in 1..NumStudents : TermRowOf(TermResultSets[t][p[i]], i, t)

\* a student whose first sequence has a positive mark sum and whose second
\* sequence has a recorded mark but sum 0: the term row uses the first only
C7_Witness ==
  /\ TermComputed
  /\ \E i \in 1..NumStudents :
       /\ CountedSequences(i, 1) = {1}
       /\ \E j \in 1..Len(subjects) :
            FindMark(marks, students[i].id, subjects[j].id, "secondSequence") # 0
       /\ \E p \in 1..Len(firstTermResults) :
            /\ firstTermResults[p].student = students[i].name
            /\ firstTermResults[p].totalMarks = CellSum(i, "firstSequence")
            /\ firstTermResults[p].average = Quot(20 * CellSum(i, "firstSequence"), PossibleSum)

\* statistics over the rows with a positive key only
StatsOverPositive(rows, classAvg, passPerc) ==
  LET V == {p \in 1..Len(rows) : Gt(KeyOf(rows[p]), Num(0))}
  IN IF V = {} THEN classAvg = Num(0) /\ passPerc = Num(0)
     ELSE /\ IsMeanOf(classAvg, KeysOf(rows), V)
          /\ IsRatio(passPerc, 100 * Cardinality(PassingRows(rows, V)), Cardinality(V))

\* C8: term and annual class average and pass percentage are those of the
\* students with a positive average (finalAverage) only, both 0 when there is
\* none, while the sequence class average divides by all N students.
C8_TermStatistics ==
  /\ TermComputed =>
       /\ StatsOverPositive(firstTermResults, firstTermClassAverage, firstTermPassPercentage)
       /\ StatsOverPositive(secondTermResults, secondTermClassAverage, secondTermPassPercentage)
       /\ StatsOverPositive(thirdTermResults, thirdTermClassAverage, thirdTermPassPercentage)
       /\ StatsOverPositive(annualResults, annualClassAverage, annualPassPercentage)
  /\ (SeqComputed /\ NumStudents > 0) =>
       IsMeanOf(sequenceClassAverage, KeysOf(sequenceResults), 1..Len(sequenceResults))

\* one student with average 20 and one with average 0 in the first sequence
\* and the first term: the sequence class average is 10, the term's is 20
C8_Witness ==
  /\ SeqComputed /\ TermComputed
  /\ selectedSequence = "firstSequence"
  /\ NumStudents = 2
  /\ \E p, q \in 1..2 :
       /\ sequenceResults[p].average = Num(20) /\ sequenceResults[q].average = Num(0)
       /\ firstTermResults[p].average = Num(20) /\ firstTermResults[q].average = Num(0)
       /\ annualResults[p].finalAverage = Num(20) /\ annualResults[q].finalAverage = Num(0)
  /\ sequenceClassAverage = Num(10) /\ sequencePassPercentage = Num(50)
  /\ firstTermClassAverage = Num(20) /\ firstTermPassPercentage = Num(100)
  /\ annualClassAverage = Num(20) /\ annualPassPercentage = Num(100)

\* C9: every annual row's finalAverage is the mean of those of its three term
\* averages that are > 0, and 0 when none is; term averages 14, 0, 16 give 15.
C9_AnnualFinalAverage ==
  /\ TermComputed => \A p \in 1..Len(annualResults) : FinalIsMeanOfPositive(annualResults[p])
  /\ FinalAverage(<<Num(14), Num(0), Num(16)>>) = Num(15)

\* a student with different positive averages in the first and third term and
\* 0 in the second: the final average is their mean
C9_Witness ==
  /\ TermComputed
  /\ \E p \in 1..Len(annualResults) :
       LET r == annualResults[p]
       IN /\ Gt(r.firstTermAverage, Num(0))
          /\ r.secondTermAverage = Num(0)
          /\ Gt(r.thirdTermAverage, Num(0))
          /\ r.firstTermAverage # r.thirdTermAverage
          /\ r.finalAverage = Over(Plus(r.firstTermAverage, r.thirdTermAverage), 2)

\* the term average of student i, from the student's own marks
OwnTermAverage(i, t) ==
  IF CountedSequences(i, t) = {} THEN Num(0)
  ELSE Quot(20 * CountedMarks(i, t), Cardinality(CountedSequences(i, t)) * PossibleSum)

UniqueName(i) == \A j \in 1..NumStudents : students[j].name = students[i].name => j = i

\* C10: every student's annual row carries, for each term, the average of the
\* highest-ranked row of that term's result set with the student's name; for
\* a student with a unique name that is the student's own term average, and
\* students sharing a name carry the same term averages.
C10_JoinByName ==
  TermComputed =>
    /\ Len(annualResults) = NumStudents
    /\ \E p \in Perms(NumStudents) :
         \A i \in 1..NumStudents :
           LET r == annualResults[p[i]]
           IN /\ r.student = students[i].name
              /\ \A t \in 1..3 :
                   /\ TermAveragesOf(r)[t] = AverageByName(TermResultSets[t], students[i].name)
                   /\ UniqueName(i) => TermAveragesOf(r)[t] = OwnTermAverage(i, t)
    /\ \A p, q \in 1..Len(annualResults) :
         annualResults[p].student = annualResults[q].student
           => TermAveragesOf(annualResults[p]) = TermAveragesOf(annualResults[q])

\* two students share a name and have different first-term averages: both
\* annual rows carry the higher one
C10_Witness ==
  /\ TermComputed
  /\ NumStudents = 2
  /\ students[1].name = students[2].name
  /\ Gt(OwnTermAverage(2, 1), OwnTermAverage(1, 1))
  /\ \A p \in 1..2 : annualResults[p].firstTermAverage = OwnTermAverage(2, 1)

\* ------------------------------------------------------------ data entry
\* the subject with the given id in the subject list
SubjectsWithId(id) == {j \in 1..Len(subjects) : subjects[j].id = id}

\* C20: after any sequence of handleAddSubject and handleEditSubject calls,
\* every subject in the subject list has a strictly positive total.
C20_PositiveTotals ==
  \A j \in 1..Len(subjects) : subjects[j].total > 0

\* C19: every numeric value of a Mark in the marks list lies between 0 and
\* the current total of the Mark's subject, also after the total is edited.
C19_MarksWithinTotal ==
  \A i \in 1..Len(marks) :
    marks[i].marks # EmptyString =>
      \A j \in SubjectsWithId(marks[i].subjectId) :
        0 <= marks[i].marks /\ marks[i].marks <= subjects[j].total

\* the same, for classes whose subject totals are all strictly positive
C19_MarksWithinPositiveTotal ==
  C20_PositiveTotals => C19_MarksWithinTotal

\* ------------------------------------------------------------ mark validation
\* the input is non-numeric, negative or greater than maxTotal
InvalidInput(mark, maxTotal) ==
  /\ mark # ""
  /\ \/ Number(mark).nan
     \/ Number(mark).v < 0
     \/ Number(mark).v > maxTotal

\* the Mark documents a step writes: added, or given another value
WrittenMarks == store'.marks \ store.marks

\* some cell of the marks table takes the input
MarkChangeStep(mark) ==
  \E i \in 1..Len(students), j \in 1..Len(subjects) :
    /\ InvalidInput(mark, subjects[FindSubjectByName(subjects, subjects[j].name)].total)
    /\ onMarkChange(i, subjects[j].name, mark,
                    subjects[FindSubjectByName(subjects, subjects[j].name)].total)

\* C12: handleMarkChange with a mark string that is non-numeric, negative or
\* greater than maxTotal writes nothing to the store, leaves the marks list
\* unchanged, suspends nothing and signals no error; every Mark value a step
\* writes is the empty string or a number between 0 and the total of the
\* Mark's subject at the time of the call.
C12_InvalidMarkRejected ==
  [][/\ (\E mark \in MarkInputs : MarkChangeStep(mark))
         => UNCHANGED <<store, marks, errorMessage, pending>>
     /\ \A d \in WrittenMarks :
          \/ d.marks = EmptyString
          \/ \E j \in SubjectsWithId(d.subjectId) :
               0 <= d.marks /\ d.marks <= subjects[j].total]_vars

\* a signed-in user looks at a marks table that holds a mark of 2 for a
\* subject of total 2: the inputs "3", "-1" and "x" are invalid for the cell
C12_Witness ==
  /\ user /\ Idle /\ Ready /\ MarksPanelShown
  /\ \E i \in 1..Len(marks) :
       /\ marks[i].marks = 2
       /\ \E j \in SubjectsWithId(marks[i].subjectId) :
            /\ subjects[j].total = 2
            /\ \A mark \in {"3", "-1", "x"} : InvalidInput(mark, subjects[j].total)

\* ------------------------------------------------------------ one Mark per cell
SameCell(a, b) ==
  a.studentId = b.studentId /\ a.subjectId = b.subjectId /\ a.sequence = b.sequence

\* C11: after any sequence of handleMarkChange calls, overlapping ones
\* included, the marks collection of the store and the marks list in memory
\* hold at most one Mark per (studentId, subjectId, sequence) triple.
C11_OneMarkPerCell ==
  /\ \A a, b \in store.marks : SameCell(a, b) => a = b
  /\ \A i, k \in 1..Len(marks) : SameCell(marks[i], marks[k]) => i = k

\* the same, for the marks list in memory alone
C11_OneMarkPerCellInMemory ==
  \A i, k \in 1..Len(marks) : SameCell(marks[i], marks[k]) => i = k

\* ------------------------------------------------------------ totality
\* x is a number: neither Infinity nor NaN nor null
Finite(x) == x.d > 0

\* the sequence results and statistics are total over the lists they were
\* computed from
SequenceTotal ==
  /\ \A p \in 1..Len(sequenceResults) :
       /\ Finite(sequenceResults[p].average)
       /\ PossibleSum = 0 => sequenceResults[p].average = Num(0)
  /\ Finite(sequenceClassAverage) /\ Finite(sequencePassPercentage)
  /\ NumStudents = 0 => sequenceClassAverage = Num(0) /\ sequencePassPercentage = Num(0)

TermStatistics ==
  <<firstTermClassAverage, secondTermClassAverage, thirdTermClassAverage,
    annualClassAverage, firstTermPassPercentage, secondTermPassPercentage,
    thirdTermPassPercentage, annualPassPercentage>>

\* the term and annual results and statistics are total over the lists they
\* were computed from
TermTotal ==
  /\ \A t \in 1..3 : \A p \in 1..Len(TermResultSets[t]) :
       /\ Finite(TermResultSets[t][p].average)
       /\ PossibleSum = 0 => TermResultSets[t][p].average = Num(0)
       /\ TermResultSets[t][p].totalMarks = 0 => TermResultSets[t][p].average = Num(0)
  /\ \A p \in 1..Len(annualResults) :
       /\ Finite(annualResults[p].finalAverage)
       /\ PositiveTerms(annualResults[p]) = {} => annualResults[p].finalAverage = Num(0)
  /\ \A k \in 1..Len(TermStatistics) :
       /\ Finite(TermStatistics[k])
       /\ NumStudents = 0 => TermStatistics[k] = Num(0)

\* C13: the aggregators are total: every average and statistic they store is
\* a number, and it is 0 in each denominator-zero case (sum of subject totals
\* 0, no student, no counted sequence, no term with a positive average).
C13_AggregatorsTotal ==
  [][/\ calculateSequenceResults => SequenceTotal'
     /\ calculateTermResults => TermTotal']_vars

\* ------------------------------------------------------------ one run
\* the statistics calculateTermResults derives from a term result set
StatsOfTerm(rows) == calculateStats(Averages(rows))

\* C17: in every state between handler runs the stored annual result set is
\* the annual aggregation of the three stored term result sets (one row per
\* term row, carrying for each term the average of the row with its name),
\* and the stored term and annual statistics are the statistics of the
\* stored term and annual result sets.
C17_NoPartialResult ==
  TermComputed =>
    /\ \A t \in 1..3 : Len(annualResults) = Len(TermResultSets[t])
    /\ \A p \in 1..Len(annualResults) : \A t \in 1..3 :
         TermAveragesOf(annualResults[p])[t]
           = AverageByName(TermResultSets[t], annualResults[p].student)
    /\ firstTermClassAverage = StatsOfTerm(firstTermResults).classAvg
    /\ secondTermClassAverage = StatsOfTerm(secondTermResults).classAvg
    /\ thirdTermClassAverage = StatsOfTerm(thirdTermResults).classAvg
    /\ firstTermPassPercentage = StatsOfTerm(firstTermResults).passPerc
    /\ secondTermPassPercentage = StatsOfTerm(secondTermResults).passPerc
    /\ thirdTermPassPercentage = StatsOfTerm(thirdTermResults).passPerc
    /\ annualClassAverage = calculateStats(FinalAverages(annualResults)).classAvg
    /\ annualPassPercentage = calculateStats(FinalAverages(annualResults)).passPerc

\* ------------------------------------------------------------ recomputation
\* C15: the five result sets and the ten statistics change only in a step of
\* calculateSequenceResults, of calculateTermResults or of handleResetData;
\* every other handler, the fetch and the two selectors leave them unchanged.
C15_OnlyExplicitTriggers ==
  [][resultVars' # resultVars =>
       \/ calculateSequenceResults
       \/ calculateTermResults
       \/ \E i \in 1..Len(pending) : ResumeResetData(i)]_vars

\* the lists have changed since the sequence results were computed, and the
\* results have stayed as they were
C15_Witness ==
  /\ SeqComputed /\ Idle /\ Ready
  /\ Len(sequenceResults) > 0
  /\ sequenceResults # resultsWithRank(students, subjects, marks, selectedSequence)

\* the sequence result set holds exactly the rows of the current students
SequenceReplaced ==
  /\ Len(sequenceResults) = NumStudents
  /\ \E p \in Perms(NumStudents) :
       \A i \in 1..NumStudents : SequenceRowOf(sequenceResults[p[i]], i)

\* the result set of term t holds exactly the rows of the current students
TermReplaced(t) ==
  /\ Len(TermResultSets[t]) = NumStudents
  /\ \E p \in Perms(NumStudents) :
       \A i \in 1..NumStudents : TermRowOf(TermResultSets[t][p[i]], i, t)

\* the annual result set holds exactly one row per current student, with the
\* term averages of the stored term result sets
AnnualReplaced ==
  /\ Len(annualResults) = NumStudents
  /\ \E p \in Perms(NumStudents) :
       \A i \in 1..NumStudents :
         /\ annualResults[p[i]].student = students[i].name
         /\ \A t \in 1..3 :
              TermAveragesOf(annualResults[p[i]])[t]
                = AverageByName(TermResultSets[t], students[i].name)

\* C16: each recompute replaces the previous result set wholesale: after
\* calculateSequenceResults the sequence result set has exactly one row per
\* student of the current student list, each computed from the current
\* lists; after calculateTermResults the same holds for the three term
\* result sets and for the annual result set.
C16_ReplacedWholesale ==
  [][/\ calculateSequenceResults => SequenceReplaced'
     /\ calculateTermResults =>
          /\ \A t \in 1..3 : TermReplaced(t)'
          /\ AnnualReplaced']_vars

\* the term results were computed for two students, one student has been
\* deleted since, and the sequence results recomputed after that hold the
\* row of the remaining student alone
C16_Witness ==
  /\ SeqComputed /\ TermComputed
  /\ NumStudents = 1
  /\ Len(firstTermResults) = 2
  /\ selectedResultView = "sequence"
  /\ SequenceReplaced

MarksOfCell(studentId, sequence, name) ==
  {k \in 1..Len(marks) :
     /\ marks[k].studentId = studentId
     /\ marks[k].sequence = sequence
     /\ \E j \in SubjectsWithId(marks[k].subjectId) : subjects[j].name = name}

\* the (sequence, subject name) pairs for which the student has a Mark
CellsOf(studentId) ==
  {key \in Sequences6 \X {subjects[j].name : j \in 1..Len(subjects)} :
     MarksOfCell(studentId, key[1], key[2]) # {}}

\* C18: the mapping handleGenerateStudentReport hands to the report
\* generator has an entry for (sequence, subject name) iff the student has a
\* Mark for that sequence whose subjectId is the id of a current subject; the
\* entry's value is the value of such a Mark; cells without a Mark have no
\* entry; a Mark with an unknown subject id gives no entry; and a report is
\* generated only for the id of a current student.
C18_SparseReport ==
  report # NoReport =>
    /\ \E i \in 1..Len(students) :
         students[i].id = report.studentId /\ students[i].name = report.student
    /\ DOMAIN report.studentMarks = CellsOf(report.studentId)
    /\ \A key \in DOMAIN report.studentMarks :
         \E k \in MarksOfCell(report.studentId, key[1], key[2]) :
           report.studentMarks[key] = marks[k].marks

\* a report of a student with a Mark for one sequence: the mapping has that
\* entry and none for the other sequences
C18_Witness ==
  /\ report # NoReport
  /\ Cardinality(DOMAIN report.studentMarks) = 1
  /\ Len(subjects) = 1

\* a report of a student whose only Mark names a deleted subject: the
\* mapping is empty
C18_OrphanSkipped ==
  /\ report # NoReport
  /\ DOMAIN report.studentMarks = {}
  /\ \E k \in 1..Len(marks) :
       marks[k].studentId = report.studentId /\ SubjectsWithId(marks[k].subjectId) = {}

\* ------------------------------------------------------------ lost writes
\* C21: no successful mark write is lost: once the handleMarkChange calls for
\* different cells have run to their end, overlapping ones included, the
\* marks list in memory holds the Marks the store holds.
C21_NoLostWrite ==
  (Idle /\ \A a, b \in store.marks : SameCell(a, b) => a = b)
    => Range(marks) = store.marks

\* ------------------------------------------------------------ references
StudentIds == {students[i].id : i \in 1..Len(students)}

SubjectIds == {subjects[j].id : j \in 1..Len(subjects)}

\* C22: in every state in which no handler call is pending, every Mark's
\* studentId is the id of a student of the student list, its subjectId is the
\* id of a subject of the subject list, and every key of the comment map is
\* the id of a current student.
C22_ReferentialIntegrity ==
  Idle =>
    /\ \A k \in 1..Len(marks) :
         marks[k].studentId \in StudentIds /\ marks[k].subjectId \in SubjectIds
    /\ DOMAIN studentComments \subseteq StudentIds

\* ------------------------------------------------------------ stale rows
StudentNamesNow == {students[i].name : i \in 1..Len(students)}

\* the five stored result sets
FiveResultSets ==
  <<sequenceResults, firstTermResults, secondTermResults, thirdTermResults,
    annualResults>>

\* C23: in every reachable state every row of every stored result set names
\* a student of the current student list, also after a student is renamed or
\* deleted.
C23_RowsNameCurrentStudents ==
  \A s \in 1..Len(FiveResultSets) : \A p \in 1..Len(FiveResultSets[s]) :
    FiveResultSets[s][p].student \in StudentNamesNow

\* ------------------------------------------------------------ term and sequences
\* the sequence average of student i for a sequence, as
\* calculateSequenceResults computes it with that sequence selected
SequenceAverageOf(i, sequence) ==
  IF PossibleSum > 0 THEN Quot(20 * CellSum(i, sequence), PossibleSum) ELSE Num(0)

\* the sequence averages of student i for the two sequences of term t
TermSequenceAverages(i, t) ==
  [k \in 1..2 |-> SequenceAverageOf(i, termSequences[TermNames[t]][k])]

\* the term average x of student i for term t against the sequence averages
TermIsMeanOfSequences(x, i, t) ==
  IF CountedSequences(i, t) = {} THEN x = Num(0)
  ELSE IsMeanOf(x, TermSequenceAverages(i, t), CountedSequences(i, t))

\* every term row carries the mean of its student's counted sequence averages
TermsAreMeansOfSequences ==
  \A t \in 1..3 :
    /\ Len(TermResultSets[t]) = NumStudents
    /\ \E p \in Perms(NumStudents) :
         \A i \in 1..NumStudents :
           /\ TermResultSets[t][p[i]].student = students[i].name
           /\ TermIsMeanOfSequences(TermResultSets[t][p[i]].average, i, t)

\* C24: for every student and term over the snapshot calculateTermResults
\* reads: if both sequences of the term have a positive mark sum, the term
\* average is the arithmetic mean of the student's two sequence averages; if
\* exactly one has, it is that sequence's average; if neither has, it is 0.
C24_TermIsMeanOfSequences ==
  [][calculateTermResults => TermsAreMeansOfSequences']_vars

\* the same, as a statement about the stored term results of a snapshot
\* that does not change
C24_OverSnapshot == TermComputed => TermsAreMeansOfSequences

\* ------------------------------------------------------------ isolation
\* the Marks of the given sequences, in the order of the marks list: what two
\* snapshots that differ only in Marks of other sequences have in common
MarksOfSequences(seqs) ==
  Filter(marks, {m \in Range(marks) : m.sequence \in seqs})

\* the result set and statistics of term t computed from the Marks of the
\* term's two sequences alone
IsolatedTerm(t) ==
  calculateTerm(students, subjects,
                MarksOfSequences(Range(termSequences[TermNames[t]])),
                termSequences[TermNames[t]])

\* C25: two snapshots that differ only in Marks of sequences other than the
\* selected one give the same sequence results and statistics, and two
\* snapshots that differ only in Marks outside a term's two sequences give
\* the same results and statistics for that term: the stored results are
\* those of the snapshot without the other Marks.
C25_SequenceIsolation ==
  /\ SeqComputed =>
       /\ sequenceResults
            = resultsWithRank(students, subjects,
                              MarksOfSequences({selectedSequence}), selectedSequence)
       /\ sequenceClassAverage
            = SequenceClassAvg(SequenceRows(students, subjects,
                                            MarksOfSequences({selectedSequence}),
                                            selectedSequence))
       /\ sequencePassPercentage
            = SequencePassPerc(SequenceRows(students, subjects,
                                            MarksOfSequences({selectedSequence}),
                                            selectedSequence))
  /\ TermComputed =>
       \A t \in 1..3 :
         /\ TermResultSets[t] = IsolatedTerm(t)
         /\ TermStatistics[t] = calculateStats(Averages(IsolatedTerm(t))).classAvg
         /\ TermStatistics[t + 4] = calculateStats(Averages(IsolatedTerm(t))).passPerc

\* results computed from a snapshot with a positive mark in the selected
\* sequence and a positive mark of the same student and subject in a sequence
\* of another term
C25_Witness ==
  /\ SeqComputed /\ TermComputed
  /\ \E a, b \in 1..Len(marks) :
       /\ marks[a].sequence = selectedSequence
       /\ marks[b].sequence \notin Range(termSequences.firstTerm)
       /\ selectedSequence \in Range(termSequences.firstTerm)
       /\ marks[a].studentId = marks[b].studentId
       /\ marks[a].subjectId = marks[b].subjectId
       /\ marks[a].marks > 0 /\ marks[b].marks > 0

\* ------------------------------------------------------------ failed writes
\* the student, subject, mark and comment handlers
DataHandlers == WriteOps \cup {"handleCommentChange"}

\* the step ends a handler call whose store write was rejected
FailedCallEnds ==
  \E i \in 1..Len(pending) :
    /\ pending[i].op \in DataHandlers
    /\ ~pending[i].ok
    /\ pending' = Without(pending, i)

\* C26: when the store write of a student, subject, mark or comment handler
\* fails, the call ends with students, subjects, marks and comments in memory
\* unchanged and errorMessage set to a non-empty message.
C26_FailedWriteKeepsMemory ==
  [][FailedCallEnds =>
       /\ UNCHANGED <<students, subjects, marks, studentComments>>
       /\ errorMessage' # ""]_vars

\* the write of a mark was rejected: the class is in memory as before and
\* the alert shows the message of handleMarkChange
C26_Witness ==
  /\ Idle /\ storeDown
  /\ errorMessage = "error_saving_marks"
  /\ Len(students) > 0 /\ Len(subjects) > 0

\* C27: while no user is authenticated, a call of a data handler or a run of
\* the fetch effect leaves the store alone, suspends at no store call and
\* changes nothing of the data, the comments, the results and the error
\* message; and whenever useAuthState has loaded and reports no user, the
\* router is at /login.
NoUserStep == ~user /\ ~user' /\ Idle

C27_NoUserNoAccess ==
  [][/\ NoUserStep =>
          UNCHANGED <<store, nextId, pending, dataVars, studentComments, resultVars,
                      selectedResultView, errorMessage>>
     /\ (~loading' /\ ~user') => route' = "/login"]_vars

\* signed out with the class still in memory and the forms at hand
C27_Witness ==
  /\ ~loading /\ ~user /\ Idle
  /\ route = "/login"
  /\ Len(students) > 0 /\ Len(subjects) > 0
  /\ nextId <= MaxDocs

\* the ten stored class averages and pass percentages
AllStatistics == <<sequenceClassAverage, sequencePassPercentage>> \o TermStatistics

\* a handleResetData call whose deletes all succeeded runs to its end
ResetCompletes ==
  \E i \in 1..Len(pending) :
    /\ pending[i].op = "handleResetData" /\ pending[i].ok
    /\ pending' = Without(pending, i)

NothingDerivedRemains ==
  /\ students = <<>> /\ subjects = <<>> /\ marks = <<>>
  /\ studentComments = <<>>
  /\ \A s \in 1..Len(FiveResultSets) : FiveResultSets[s] = <<>>
  /\ \A k \in 1..Len(AllStatistics) :
       AllStatistics[k] = Null \/ (Finite(AllStatistics[k]) /\ AllStatistics[k].n = 0)
  /\ selectedSequence = "firstSequence"
  /\ selectedResultView = "sequence"

\* C28: when a confirmed handleResetData call whose deletes all succeeded has
\* run to its end, the lists, the comments and the five result sets are empty,
\* each of the ten stored class averages and pass percentages is null or 0,
\* selectedSequence is firstSequence and selectedResultView is sequence.
C28_ResetLeavesNothingDerived == [][ResetCompletes => NothingDerivedRemains']_vars

\* the Mark records with a value: the list without the cleared marks
Uncleared(ms) == Filter(ms, {m \in Range(ms) : m.marks # EmptyString})

\* handleMarkChange(.., '', ..) called from the cell of student i and subject j
ClearCall(i, j) ==
  /\ Ready /\ Idle
  /\ onMarkChange(i, subjects[j].name, "",
                  subjects[FindSubjectByName(subjects, subjects[j].name)].total)

\* the call updates the record of the cell to '' in the store and in the list
\* it hands to setMarks, and adds and removes no record
CellCleared(i, j) ==
  LET subjectId == subjects[FindSubjectByName(subjects, subjects[j].name)].id
      k == FindMark(marks, students[i].id, subjectId, selectedSequence)
      call == pending'[Len(pending')]
  IN /\ k # 0
     /\ Len(pending') = Len(pending) + 1
     /\ call.next.marks = [marks EXCEPT ![k].marks = EmptyString]
     /\ {d.id : d \in store'.marks} = {d.id : d \in store.marks}
     /\ call.ok => \E d \in store'.marks : d.id = marks[k].id /\ d.marks = EmptyString
     /\ ~call.ok => store' = store

\* what a run of either aggregator leaves alone, and the view it selects
SequenceRun ==
  selectedResultView' = "sequence" /\ UNCHANGED <<dataVars, termResultVars, appVars>>

TermRun ==
  selectedResultView' = "firstTerm" /\ UNCHANGED <<dataVars, seqResultVars, appVars>>

\* the results of a run are those of the list without the cleared marks
ClearedCountsAsMissing ==
  /\ (SequenceRun /\ calculateSequenceResults) =>
       sequenceResults' = resultsWithRank(students, subjects, Uncleared(marks),
                                          selectedSequence)
  /\ (TermRun /\ calculateTermResults) =>
       /\ firstTermResults'
            = calculateTerm(students, subjects, Uncleared(marks), termSequences.firstTerm)
       /\ secondTermResults'
            = calculateTerm(students, subjects, Uncleared(marks), termSequences.secondTerm)
       /\ thirdTermResults'
            = calculateTerm(students, subjects, Uncleared(marks), termSequences.thirdTerm)

\* C29: a handleMarkChange call with the empty string that changes anything
\* finds the Mark record of the cell, keeps it and sets its value to '' (in
\* the store and in the list given to setMarks) and creates and deletes no
\* record; with no record for the cell the call changes nothing; and the
\* sequence and term results computed from a list with cleared marks are the
\* results computed from the list without them.
C29_ClearedMarkKept ==
  [][/\ \A i \in 1..Len(students), j \in 1..Len(subjects) :
          ClearCall(i, j) => CellCleared(i, j)
     /\ ClearedCountsAsMissing]_vars

\* the first-sequence mark of the class was cleared, the second-sequence mark
\* stands, and both aggregators have run for the first sequence
C29_Witness ==
  /\ Idle
  /\ selectedSequence = "firstSequence"
  /\ \E k \in 1..Len(marks) :
       marks[k].sequence = "firstSequence" /\ marks[k].marks = EmptyString
  /\ \E k \in 1..Len(marks) :
       marks[k].sequence = "secondSequence" /\ marks[k].marks # EmptyString
  /\ store.marks = Range(marks)
  /\ Len(sequenceResults) = 1 /\ sequenceResults[1].totalMarks = 0
  /\ Len(firstTermResults) = 1 /\ Gt(firstTermResults[1].average, Num(0))


====
